---- MODULE Spec2Model ----
(***************************************************************************)
(* A model of the daily-digest news pipeline: page retrieval with retry    *)
(* and backoff (BaseScraper), the article store (DatabaseManager), the     *)
(* duplicate clustering and quality filter (ContentExtractor) and the      *)
(* trending-topic computation (TrendingAnalyzer).                          *)
(*                                                                         *)
(* Each component has its own specification (SpecFetch, SpecStore, ...).   *)
(* All specifications share the variables below; a specification leaves    *)
(* the variables of the other components at their idle values.             *)
(***************************************************************************)
EXTENDS Integers, Sequences, FiniteSets, TLC

VARIABLES
    \* BaseScraper.fetch_page
    retry_attempts,   \* self.retry_attempts (scraping_config)
    fpc,              \* position inside fetch_page
    attempt,          \* the loop variable of fetch_page
    trace,            \* the requests and sleeps made so far, in order
    fresult           \* what fetch_page returned

fetchVars == <<retry_attempts, fpc, attempt, trace, fresult>>

VARIABLES
    \* DatabaseManager: the articles table and the last add_article call
    articles,         \* the rows of the articles table, in rowid order
    addArg,           \* the Article passed to the last add_article call
    addResult,        \* what that call returned (NoneId for None)
    addOutcome,       \* "returned", or "raised" when an exception escaped
    clock             \* the wall clock in hours, UTC

storeVars == <<articles, addArg, addResult, addOutcome, clock>>

VARIABLES
    \* TrendingAnalyzer
    tz,               \* offset of the local time zone from UTC, in hours
    trendPc,          \* "idle" until get_trending_topics has returned
    trendArgs,        \* hours_back, min_articles, max_topics of the call
    trendResult,      \* the list of TrendingTopic it returned
    trendOutcome,     \* the return statement it left through
    extractCalls,     \* the calls of _extract_keywords_from_articles made
    recPc,            \* "idle" until _calculate_recency_score has returned
    recArg,           \* the timestamps passed to _calculate_recency_score
    recResult         \* the score it returned, as a fraction

trendVars ==
    <<tz, trendPc, trendArgs, trendResult, trendOutcome, extractCalls,
      recPc, recArg, recResult>>

VARIABLES
    \* ContentExtractor.detect_duplicates
    dedupPc,          \* "idle" until detect_duplicates has returned
    batch,            \* the rows of the tf-idf matrix of the texts passed
    clusters,         \* the list of index sets it returned
    dedupRaised,      \* an exception escaped detect_duplicates
    dedupFault,       \* the call inside the try that raised, if any
    vectorizeCalls    \* the calls of vectorizer.fit_transform made

dedupVars ==
    <<dedupPc, batch, clusters, dedupRaised, dedupFault, vectorizeCalls>>

VARIABLES
    \* BaseScraper.extract_article_links
    base_url,         \* self.base_url (source_config)
    max_articles,     \* self.max_articles (source_config)
    linkPc,           \* "idle" until extract_article_links has returned
    page,             \* the href of every element the link selector matches
    linkResult,       \* the list of URLs it returned
    loopPc,           \* position of fetch_articles in its loop over the links
    visited,          \* the links passed to extract_article_content so far
    fetched           \* the links whose article was appended to `articles`

linkVars ==
    <<base_url, max_articles, linkPc, page, linkResult, loopPc, visited,
      fetched>>

VARIABLES
    \* ContentExtractor.is_quality_content
    qPc,              \* "idle" until is_quality_content has returned
    qArg,             \* title, content and min_length of the call
    qResult           \* the boolean it returned

qualityVars == <<qPc, qArg, qResult>>

VARIABLES
    \* NewsSourceManager.scrape_all_sources and the processing loop after it
    min_content_length, \* self.min_content_length (scraping_config)
    pipePc,           \* position inside the run
    srcIdx,           \* the source scrape_all_sources is at
    discovered,       \* per scraped source, the number of links found
    linkIdx,          \* the loop variable i of fetch_articles, from 1
    slept,            \* the rate-limit sleep of this iteration was made
    extracted,        \* the local list `articles` of fetch_articles
    results,          \* per scraped source, the list it is recorded with
    procSrc,          \* the source the processing loop is at
    procIdx,          \* the article of that source it is at
    log               \* the events of the run, in order

pipeVars ==
    <<min_content_length, pipePc, srcIdx, discovered, linkIdx, slept,
      extracted, results, procSrc, procIdx, log>>

VARIABLES
    \* ContentExtractor.extract_keywords
    kwPc,             \* "idle" until extract_keywords has returned
    kwArg,            \* text and max_keywords of the call
    kwPath,           \* the return statement it left through
    kwResult          \* the keywords it returned, in order (joined by ", ")

kwVars == <<kwPc, kwArg, kwPath, kwResult>>

VARIABLES
    \* two runs of the processing loop (NewsScheduler.scrape_all_sources
    \* and trigger_scraping) over one database
    runPc,            \* per run, its position in the loop
    runQueue,         \* per run, the articles the scrape returned
    runIdx,           \* per run, the article the loop is at
    processedCount,   \* per run, total_processed / processed_count
    runLog,           \* per run, what it did to each article, in order
    sourcesTable      \* the rows of the sources table, by source

runVars ==
    <<runPc, runQueue, runIdx, processedCount, runLog, sourcesTable>>

VARIABLES
    \* two threads on one ContentExtractor: extract_keywords and
    \* detect_duplicates share self.vectorizer
    vocabulary,       \* the feature names the vectorizer was last fitted to
    ckPc,             \* position of the extract_keywords call
    ckArg,            \* its text and max_keywords
    ckScores,         \* its local tfidf_scores, one per feature of its fit
    ckResult,         \* the keywords it returned
    cdPc,             \* position of the detect_duplicates call
    cdBatch,          \* its texts
    cdRows,           \* its local tfidf_matrix
    cdResult          \* the clusters it returned

concVars ==
    <<vocabulary, ckPc, ckArg, ckScores, ckResult, cdPc, cdBatch, cdRows,
      cdResult>>

vars ==
    <<fetchVars, storeVars, trendVars, dedupVars, linkVars, qualityVars,
      pipeVars, kwVars, runVars, concVars>>

None == "None"

RECURSIVE SumSeq(_)
SumSeq(s) == IF s = <<>> THEN 0 ELSE Head(s) + SumSeq(Tail(s))

(***************************************************************************)
(* BaseScraper.fetch_page                                                  *)
(***************************************************************************)
MaxRetry == 4

\* the exceptions session.get / raise_for_status can raise
FetchErrors == {"timeout", "http_error"}

GetEvent(err) == [ev |-> "get", err |-> err, secs |-> 0]
SleepEvent(s) == [ev |-> "sleep", err |-> "", secs |-> s]

\* time.sleep(2 ** attempt)
Backoff_linear(k) == 2 * k
Backoff(k) == 2 ^ k

\* if attempt < self.retry_attempts - 1
SleepsAfter_every(k, n) == k < n
SleepsAfter(k, n) == k < n - 1

FetchIdle ==
    /\ retry_attempts = 3
    /\ fpc = "idle"
    /\ attempt = 0
    /\ trace = <<>>
    /\ fresult = "pending"

\* for attempt in range(self.retry_attempts): another iteration follows
InRange_more(k, n) == k <= n
InRange(k, n) == k < n

\* entry: for attempt in range(self.retry_attempts)
FetchPageCall ==
    /\ fpc = "idle"
    /\ fpc' = "for"
    /\ attempt' = 0
    /\ UNCHANGED <<retry_attempts, trace, fresult>>
    /\ UNCHANGED <<storeVars, trendVars, dedupVars, linkVars, qualityVars, pipeVars, kwVars, runVars, concVars>>

\* the loop header; falling out of the loop reaches `return None`
ForAttempt ==
    /\ fpc = "for"
    /\ IF InRange(attempt, retry_attempts)
         THEN fpc' = "try" /\ fresult' = fresult
         ELSE fpc' = "done" /\ fresult' = None
    /\ UNCHANGED <<retry_attempts, attempt, trace>>
    /\ UNCHANGED <<storeVars, trendVars, dedupVars, linkVars, qualityVars, pipeVars, kwVars, runVars, concVars>>

\* session.get succeeds and raise_for_status passes: return soup
TryOk ==
    /\ fpc = "try"
    /\ trace' = Append(trace, GetEvent("ok"))
    /\ fresult' = "soup"
    /\ fpc' = "done"
    /\ UNCHANGED <<retry_attempts, attempt>>
    /\ UNCHANGED <<storeVars, trendVars, dedupVars, linkVars, qualityVars, pipeVars, kwVars, runVars, concVars>>

\* except Exception: warn, then sleep or log the final error
TryFail(err) ==
    /\ fpc = "try"
    /\ trace' = Append(trace, GetEvent(err))
    /\ IF SleepsAfter(attempt, retry_attempts)
         THEN fpc' = "sleep" /\ attempt' = attempt
         ELSE fpc' = "for" /\ attempt' = attempt + 1
    /\ UNCHANGED <<retry_attempts, fresult>>
    /\ UNCHANGED <<storeVars, trendVars, dedupVars, linkVars, qualityVars, pipeVars, kwVars, runVars, concVars>>

\* time.sleep(2 ** attempt), then the next iteration
BackoffSleep ==
    /\ fpc = "sleep"
    /\ trace' = Append(trace, SleepEvent(Backoff(attempt)))
    /\ attempt' = attempt + 1
    /\ fpc' = "for"
    /\ UNCHANGED <<retry_attempts, fresult>>
    /\ UNCHANGED <<storeVars, trendVars, dedupVars, linkVars, qualityVars, pipeVars, kwVars, runVars, concVars>>


Requests == SelectSeq(trace, LAMBDA e : e.ev = "get")
Sleeps == SelectSeq(trace, LAMBDA e : e.ev = "sleep")
RECURSIVE SleptSeconds(_)
SleptSeconds(t) ==
    IF t = <<>> THEN 0 ELSE Head(t).secs + SleptSeconds(Tail(t))

AllFailed == fpc = "done" /\ fresult = None

\* C1: when every attempt fails, fetch_page with retry_attempts = N >= 1
\* makes exactly N requests, sleeps 2^k seconds after failed attempt k for
\* k = 0..N-2 only (request k is event 2k+1 of the trace, the sleep after it
\* event 2k+2, and the trace ends with the last request), and returns None;
\* for N = 3 that is 3 requests and 3 seconds of backoff.
C1_ExhaustedRetries ==
    (AllFailed /\ retry_attempts >= 1) =>
        /\ Len(Requests) = retry_attempts
        /\ Len(trace) = 2 * retry_attempts - 1
        /\ \A k \in 0..(retry_attempts - 1) :
              /\ trace[2 * k + 1].ev = "get"
              /\ trace[2 * k + 1].err \in FetchErrors
        /\ \A k \in 0..(retry_attempts - 2) :
              /\ trace[2 * k + 2].ev = "sleep"
              /\ trace[2 * k + 2].secs = 2 ^ k
        /\ (retry_attempts = 3 => SleptSeconds(trace) = 3)

C1_Witness ==
    /\ AllFailed
    /\ retry_attempts = 3
    /\ Len(Requests) = 3
    /\ SleptSeconds(trace) = 3

(***************************************************************************)
(* DatabaseManager.add_article and the articles table                      *)
(***************************************************************************)
\* add_article returns Optional[int]; rowids start at 1, so 0 stands for None
NoneId == 0

NoArticle ==
    [url |-> "", title |-> <<>>, content |-> <<>>, sentiment |-> 0]

\* url TEXT UNIQUE NOT NULL: the INSERT violates the constraint
UrlTaken_never(rows, url) == FALSE
UrlTaken(rows, url) == \E i \in 1..Len(rows) : rows[i].url = url

\* INTEGER PRIMARY KEY AUTOINCREMENT: one more than the largest rowid
RECURSIVE MaxId(_)
MaxId(rows) ==
    IF rows = <<>> THEN 0
    ELSE LET m == MaxId(Tail(rows))
         IN  IF Head(rows).id > m THEN Head(rows).id ELSE m
NextRowId(rows) == MaxId(rows) + 1

\* the inserted row; scraped_date is not in the column list of the INSERT,
\* so it takes its DEFAULT CURRENT_TIMESTAMP (UTC)
NewRow(a, id, now) ==
    [id |-> id, url |-> a.url, title |-> a.title, content |-> a.content,
     sentiment |-> a.sentiment, scraped |-> now]

StoreIdle ==
    /\ articles = <<>>
    /\ addArg = NoArticle
    /\ addResult = NoneId
    /\ addOutcome = "none"
    /\ clock = 0

\* add_article: INSERT, commit, return cursor.lastrowid;
\* except sqlite3.IntegrityError: return None
AddArticle(a) ==
    /\ addArg' = a
    /\ addOutcome' = "returned"
    /\ IF UrlTaken(articles, a.url)
         THEN /\ addResult' = NoneId
              /\ articles' = articles
         ELSE /\ addResult' = NextRowId(articles)
              /\ articles' = Append(articles,
                                NewRow(a, NextRowId(articles), clock))
    /\ UNCHANGED clock

(***************************************************************************)
(* Texts.  A text is a sequence of tokens separated by single spaces; a    *)
(* token is a word w of which the first n characters are present (n is     *)
(* smaller than Len(w) only after a slice cut the word).  A token with     *)
(* w = "" stands for a run of n characters of stopword-only prose.         *)
(***************************************************************************)
Token(w) == [w |-> w, n |-> Len(w)]
Filler(n) == [w |-> "", n |-> n]

\* text[:limit]
RECURSIVE Slice(_, _)
Slice(text, limit) ==
    IF text = <<>> \/ limit <= 0 THEN <<>>
    ELSE LET t == Head(text)
         IN  IF t.n <= limit
               THEN <<t>> \o Slice(Tail(text), limit - t.n - 1)
               ELSE <<[t EXCEPT !.n = limit]>>

\* str.lower() on the words of the vocabulary
Lower(w) ==
    IF w = "Election" THEN "election"
    ELSE IF w = "Vote" THEN "vote"
    ELSE IF w = "Click Here" THEN "click here"
    ELSE w

\* the members of self.stopwords that occur in the vocabulary
Stopwords == {"the", "said", "also"}

\* str.isdigit() / str.isalpha() on the words of the vocabulary
IsDigit(w) == w \in {"2024"}
IsAlpha(w) == w \notin {"2024", ""}

(***************************************************************************)
(* TrendingAnalyzer                                                        *)
(***************************************************************************)
\* article['content'][:500]
BodyLimit == 500

Range(f) == {f[i] : i \in DOMAIN f}

RECURSIVE Count(_, _)
Count(seq, x) ==
    IF seq = <<>> THEN 0
    ELSE (IF Head(seq) = x THEN 1 ELSE 0) + Count(Tail(seq), x)

Repeat(x, k) == [i \in 1..k |-> x]

Abs(x) == IF x < 0 THEN 0 - x ELSE x
Min(a, b) == IF a < b THEN a ELSE b
Max(a, b) == IF a > b THEN a ELSE b

\* the condition under which _extract_keywords keeps a (lower-cased) word
IsKeyword(t) ==
    /\ t.n >= 3
    /\ t.n <= 50
    /\ ~(t.n = Len(t.w) /\ t.w \in Stopwords)
    /\ ~IsDigit(t.w)
    /\ IsAlpha(t.w)

\* _extract_keywords(text, weight): every kept word, weight times
RECURSIVE ExtractKeywords(_, _)
ExtractKeywords(text, weight) ==
    IF text = <<>> THEN <<>>
    ELSE LET t == [w |-> Lower(Head(text).w), n |-> Head(text).n]
         IN  (IF IsKeyword(t) THEN Repeat(t, weight) ELSE <<>>)
                 \o ExtractKeywords(Tail(text), weight)

\* all_keywords = title_keywords + content_keywords
AllKeywords(article) ==
    ExtractKeywords(article.title, 2)
        \o ExtractKeywords(Slice(article.content, BodyLimit), 1)

\* list.sort(key=..., reverse=True): stable, largest key first
\* (key[i] is the key of seq[i])
SortDesc(seq, key) ==
    LET n == Len(seq)
        before(j, i) ==
            \/ key[j] > key[i]
            \/ key[j] = key[i] /\ j < i
        pos(i) == 1 + Cardinality({j \in 1..n : before(j, i)})
    IN  [p \in 1..n |-> seq[CHOOSE i \in 1..n : pos(i) = p]]

\* _get_recent_articles: WHERE scraped_date >= ? ORDER BY scraped_date DESC
\* (rows with equal scraped_date in descending rowid order)
Reverse(seq) == [i \in 1..Len(seq) |-> seq[Len(seq) + 1 - i]]
RecentArticles(rows, cutoff) ==
    LET found == Reverse(SelectSeq(rows, LAMBDA r : r.scraped >= cutoff))
    IN  SortDesc(found, [i \in 1..Len(found) |-> found[i].scraped])

\* a timestamp as _calculate_recency_score receives it: ok is FALSE for a
\* value that datetime.fromisoformat rejects (ValueError, TypeError)
Stamp(t) == [ok |-> TRUE, t |-> t]
BadStamp == [ok |-> FALSE, t |-> 0]

\* score = max(0, 1 - (hours_ago / 24)), in 24ths; 0 on ValueError/TypeError
StampScore_floor(ts, now) ==
    IF ts.ok THEN 24 - (now - ts.t) ELSE 0
StampScore(ts, now) ==
    IF ts.ok THEN Max(0, 24 - (now - ts.t)) ELSE 0

RECURSIVE StampScores(_, _)
StampScores(timestamps, now) ==
    IF timestamps = <<>> THEN 0
    ELSE StampScore(Head(timestamps), now)
            + StampScores(Tail(timestamps), now)

\* _calculate_recency_score: sum(scores) / len(scores), 0 for no timestamps
RecencyScore(timestamps, now) ==
    IF timestamps = <<>>
      THEN [num |-> 0, den |-> 1]
      ELSE [num |-> StampScores(timestamps, now),
            den |-> 24 * Len(timestamps)]

\* round(num / den) to the nearest integer, ties to even (den > 0)
RoundDiv(num, den) ==
    LET q == num \div den
        r == num % den
    IN  IF 2 * r > den THEN q + 1
        ELSE IF 2 * r < den THEN q
        ELSE IF q % 2 = 0 THEN q ELSE q + 1

\* _calculate_trend_score, in thousandths: round(0.3 * min(1, frequency/20)
\* + 0.3 * min(1, article_count/10) + 0.2 * abs(avg_sentiment)
\* + 0.2 * recency_score, 3).  avg_sentiment is a fraction of tenths.
TrendScore(frequency, article_count, avg_sentiment, recency_score) ==
    LET sd == avg_sentiment.den
        rd == recency_score.den
    IN  RoundDiv(  15 * Min(20, frequency) * sd * rd
                 + 30 * Min(10, article_count) * sd * rd
                 + 20 * Abs(avg_sentiment.num) * rd
                 + 200 * recency_score.num * sd,
                 sd * rd)

Take_all(seq, k) == seq
Take(seq, k) == SubSeq(seq, 1, Min(k, Len(seq)))

\* the articles of the batch whose keywords include kw, in batch order
ArticlesWith_each(kws, kw) ==
    SelectSeq([p \in 1..(2 * Len(kws)) |-> (p + 1) \div 2],
              LAMBDA i : kw \in Range(kws[i]))
ArticlesWith(kws, kw) ==
    SelectSeq([i \in 1..Len(kws) |-> i], LAMBDA i : kw \in Range(kws[i]))

\* all_keywords of every article of the batch
RECURSIVE KeywordsPerArticle(_)
KeywordsPerArticle(recent) ==
    IF recent = <<>> THEN <<>>
    ELSE <<AllKeywords(Head(recent))>> \o KeywordsPerArticle(Tail(recent))

\* keyword_data[kw] once every article is processed and the aggregated
\* metrics are computed; `is` lists the articles that contain kw, and
\* `first` is the article that inserted the key into the dict
KeywordEntry(recent, kws, is, kw, now) ==
    LET arts == [j \in 1..Len(is) |->
                    [id |-> recent[is[j]].id,
                     scraped |-> recent[is[j]].scraped]]
        sentiments == [j \in 1..Len(is) |-> recent[is[j]].sentiment]
        timestamps == [j \in 1..Len(is) |-> Stamp(recent[is[j]].scraped)]
    IN  [count |-> SumSeq([j \in 1..Len(is) |-> Count(kws[is[j]], kw)]),
         articles |->
             SortDesc(arts, [j \in 1..Len(arts) |-> arts[j].scraped]),
         total_articles |-> Cardinality({arts[j].id : j \in 1..Len(arts)}),
         avg_sentiment |->
             [num |-> SumSeq(sentiments), den |-> Len(sentiments)],
         recency_score |-> RecencyScore(timestamps, now),
         first |-> is[1]]

\* _extract_keywords_from_articles: keyword_data, a function of the keyword
\* (a singleton set binds a value that is then computed once)
ExtractKeywordsFromArticles(recent, now) ==
    LET Data(kws) ==
            [kw \in UNION {Range(kws[i]) : i \in 1..Len(kws)} |->
                CHOOSE e \in
                    {KeywordEntry(recent, kws, is, kw, now) :
                        is \in {ArticlesWith(kws, kw)}} :
                    TRUE]
    IN  CHOOSE d \in {Data(kws) : kws \in {KeywordsPerArticle(recent)}} : TRUE

\* the iteration orders keyword_data can have: keywords enter it article by
\* article, those of one article in the order of set(all_keywords), which
\* the language leaves open
KeyOrders(keyword_data) ==
    LET K == DOMAIN keyword_data
        n == Cardinality(K)
    IN  {ord \in [1..n -> K] :
            /\ \A i, j \in 1..n : i # j => ord[i] # ord[j]
            /\ \A i, j \in 1..n :
                  i < j => keyword_data[ord[i]].first
                              <= keyword_data[ord[j]].first}

\* the TrendingTopic built from one item of keyword_data
TopicOf(kw, data) ==
    [keyword |-> kw,
     frequency |-> data.count,
     articles_count |-> Len(data.articles),
     avg_sentiment |-> data.avg_sentiment,
     recent_articles |-> Take(data.articles, 5),
     trend_score |-> TrendScore(data.count, data.total_articles,
                                data.avg_sentiment, data.recency_score)]

\* if data['count'] >= min_articles
IsTrending(data, min_articles) == data.count >= min_articles

\* the list get_trending_topics returns for one iteration order
TopicList(keyword_data, ord, min_articles, max_topics) ==
    LET kept == SelectSeq(ord,
                    LAMBDA kw : IsTrending(keyword_data[kw], min_articles))
        topics == [i \in 1..Len(kept) |->
                      TopicOf(kept[i], keyword_data[kept[i]])]
    IN  Take(SortDesc(topics,
                      [i \in 1..Len(topics) |-> topics[i].trend_score]),
             max_topics)

\* the arguments callers pass (the defaults, and export_service's 2 and 50)
DefaultHoursBack == 24
HoursBackSet == {1, DefaultHoursBack}
MinArticlesSet == {2, 3}
MaxTopicsSet == {1, 10}

\* the offsets of the local zone from UTC that the model tries
TzOffsets == {0 - 12, 0}

NoArgs == [hours_back |-> 0, min_articles |-> 0, max_topics |-> 0]

TrendIdle ==
    /\ tz = 0
    /\ trendPc = "idle"
    /\ trendArgs = NoArgs
    /\ trendResult = <<>>
    /\ trendOutcome = "none"
    /\ extractCalls = 0
    /\ recPc = "idle"
    /\ recArg = <<>>
    /\ recResult = [num |-> 0, den |-> 1]

\* datetime.now(): the local wall clock
LocalNow == clock + tz

\* if len(articles) < min_articles
Insufficient_never(recent, min_articles) == FALSE
Insufficient(recent, min_articles) == Len(recent) < min_articles

\* the `return []` of the check above, and the `return []` of the except
\* clause
InsufficientResult == <<>>
FaultResult_none == <<None>>
FaultResult == <<>>

\* where an exception is raised inside the try: in _get_recent_articles, or
\* in the aggregation after it
FaultPoints == {"none", "query", "aggregation"}

\* get_trending_topics(hours_back, min_articles, max_topics)
GetTrendingTopics(hours_back, min_articles, max_topics, fault) ==
    /\ trendPc = "idle"
    /\ trendPc' = "done"
    /\ trendArgs' = [hours_back |-> hours_back, min_articles |-> min_articles,
                     max_topics |-> max_topics]
    /\ IF fault = "query"
         THEN /\ trendResult' = FaultResult
              /\ trendOutcome' = "fault"
              /\ extractCalls' = 0
         ELSE \E recent \in {RecentArticles(articles, LocalNow - hours_back)} :
                IF Insufficient(recent, min_articles)
                  THEN /\ trendResult' = InsufficientResult
                       /\ trendOutcome' = "insufficient"
                       /\ extractCalls' = 0
                  ELSE IF fault = "aggregation"
                    THEN /\ trendResult' = FaultResult
                         /\ trendOutcome' = "fault"
                         /\ extractCalls' = 1
                    ELSE /\ \E keyword_data \in
                               {ExtractKeywordsFromArticles(recent,
                                                            LocalNow)} :
                              \E ord \in KeyOrders(keyword_data) :
                                 trendResult' = TopicList(keyword_data, ord,
                                                   min_articles, max_topics)
                         /\ trendOutcome' = "topics"
                         /\ extractCalls' = 1
    /\ UNCHANGED <<tz, recPc, recArg, recResult>>

\* _calculate_recency_score(timestamps)
CalculateRecencyScore(timestamps) ==
    /\ recPc = "idle"
    /\ recPc' = "done"
    /\ recArg' = timestamps
    /\ recResult' = RecencyScore(timestamps, LocalNow)
    /\ UNCHANGED <<tz, trendPc, trendArgs, trendResult, trendOutcome,
                   extractCalls>>

(***************************************************************************)
(* The articles the specifications insert                                  *)
(***************************************************************************)
MaxUrls == 3
MaxStore == 4
MaxHot == 7
MaxClock == 12

Urls == <<"u1", "u2", "u3", "u4", "u5", "u6", "u7", "u8", "u9">>

TitleE == <<Token("Election"), Token("2024")>>
TitleB == <<Token("budget"), Token("said")>>
BodyE == <<Token("the"), Token("election")>>
BodyN == <<Token("the"), Token("also")>>
BodyB == <<Token("budget")>>
\* "election" starts at character 496: the slice keeps "elec" and drops
\* the second occurrence
BodyCut == <<Filler(495), Token("election"), Token("election")>>

Kind(title, content, sentiment) ==
    [title |-> title, content |-> content, sentiment |-> sentiment]

\* title, body and sentiment score (in tenths) of the articles
Kinds ==
    {Kind(TitleE, BodyE, 5), Kind(TitleE, BodyN, 0 - 10),
     Kind(TitleB, BodyB, 0), Kind(TitleB, BodyN, 0),
     Kind(TitleE, BodyCut, 10)}

HotKinds == {Kind(TitleE, BodyE, 10), Kind(TitleE, BodyE, 0 - 10)}

\* articles that all name the election, some of them the budget too
FewKinds == {Kind(TitleE, BodyN, 0), Kind(TitleB, BodyN, 0)}
TopKinds == {Kind(TitleE, BodyB, 5), Kind(TitleE, BodyN, 0)}
MaxTop == 6

ArticleOf(url, kind) ==
    [url |-> url, title |-> kind.title, content |-> kind.content,
     sentiment |-> kind.sentiment]

\* the hours the recency specification passes as timestamps
StampHours == {0 - 30, 0 - 24, 0 - 23, 0 - 12, 0 - 1, 0, 6}
MaxStamps == 3

(***************************************************************************)
(* ContentExtractor.detect_duplicates                                      *)
(***************************************************************************)
\* A text enters the model as its row of the tf-idf matrix, a vector of
\* non-negative weights over two terms, here unnormalised.  A text without
\* any term of the vocabulary has the zero row.
Vectors == {<<0, 0>>, <<1, 0>>, <<0, 1>>, <<1, 1>>, <<2, 1>>, <<4, 3>>}
MaxBatch == 4

\* self.duplicate_threshold = 0.8, as a fraction
DuplicateThreshold == [num |-> 4, den |-> 5]

Dot(u, v) == u[1] * v[1] + u[2] * v[2]

\* similarity_matrix[i][j] >= self.duplicate_threshold, where the cosine
\* similarity is Dot(u, v) / (|u| * |v|) and that of a zero row is 0
Similar_strict(u, v) ==
    /\ Dot(u, u) > 0 /\ Dot(v, v) > 0
    /\ DuplicateThreshold.den * DuplicateThreshold.den * Dot(u, v) * Dot(u, v)
          > DuplicateThreshold.num * DuplicateThreshold.num
               * Dot(u, u) * Dot(v, v)
Similar(u, v) ==
    /\ Dot(u, u) > 0 /\ Dot(v, v) > 0
    /\ DuplicateThreshold.den * DuplicateThreshold.den * Dot(u, v) * Dot(u, v)
          >= DuplicateThreshold.num * DuplicateThreshold.num
               * Dot(u, u) * Dot(v, v)

\* TfidfVectorizer.fit_transform raises ValueError (empty vocabulary) when
\* no text of the batch holds a term
VectorizerFails(rows) == \A i \in 1..Len(rows) : Dot(rows[i], rows[i]) = 0

\* the inner loop for index i (0-based as in the code): duplicate_group
DuplicateGroup_next(rows, i, processed) ==
    {i} \cup {j \in (i + 1)..(Len(rows) - 1) :
                /\ j = i + 1
                /\ j \notin processed /\ Similar(rows[i + 1], rows[j + 1])}
DuplicateGroup_all(rows, i, processed) ==
    {i} \cup {j \in (i + 1)..(Len(rows) - 1) : Similar(rows[i + 1], rows[j + 1])}
DuplicateGroup(rows, i, processed) ==
    {i} \cup {j \in (i + 1)..(Len(rows) - 1) :
                j \notin processed /\ Similar(rows[i + 1], rows[j + 1])}

\* the outer loop from index i on, with the processed set and the list of
\* duplicates built so far
RECURSIVE GroupLoop(_, _, _, _)
GroupLoop(rows, i, processed, duplicates) ==
    IF i >= Len(rows) THEN duplicates
    ELSE IF i \in processed
      THEN GroupLoop(rows, i + 1, processed, duplicates)
    ELSE LET group == DuplicateGroup(rows, i, processed)
         IN  IF Cardinality(group) > 1
               THEN GroupLoop(rows, i + 1, processed \cup group,
                              Append(duplicates, group))
               ELSE GroupLoop(rows, i + 1, processed, duplicates)

DedupIdle ==
    /\ dedupPc = "idle"
    /\ batch = <<>>
    /\ clusters = <<>>
    /\ dedupRaised = FALSE
    /\ dedupFault = "none"
    /\ vectorizeCalls = 0

\* if len(articles) < 2: return []
TooFew_never(rows) == FALSE
TooFew(rows) == Len(rows) < 2

\* the calls inside the try that can raise for other reasons than an empty
\* vocabulary: fit_transform and cosine_similarity
DedupFaults == {"none", "vectorizer", "similarity"}

\* detect_duplicates(articles); `fault` is the call that raises, and every
\* exception of the try block ends in `except Exception: return []`
DetectDuplicates(rows, fault) ==
    /\ dedupPc = "idle"
    /\ dedupPc' = "done"
    /\ batch' = rows
    /\ dedupRaised' = FALSE
    /\ IF TooFew(rows)
         THEN /\ clusters' = <<>>
              /\ dedupFault' = "none"
              /\ vectorizeCalls' = 0
         ELSE IF VectorizerFails(rows) \/ fault = "vectorizer"
           THEN /\ clusters' = <<>>
                /\ dedupFault' = "vectorizer"
                /\ vectorizeCalls' = 1
         ELSE IF fault = "similarity"
           THEN /\ clusters' = <<>>
                /\ dedupFault' = "similarity"
                /\ vectorizeCalls' = 1
         ELSE /\ clusters' = GroupLoop(rows, 0, {}, <<>>)
              /\ dedupFault' = "none"
              /\ vectorizeCalls' = 1
    /\ UNCHANGED <<fetchVars, storeVars, trendVars, linkVars, qualityVars, pipeVars, kwVars, runVars, concVars>>

(***************************************************************************)
(* BaseScraper.extract_article_links                                       *)
(***************************************************************************)
\* A URL is the record of its parts: scheme, netloc, the segments of its
\* path, whether the path ends with "/", and whether a "#fragment" follows.
Url(scheme, netloc, path, slash, frag) ==
    [scheme |-> scheme, netloc |-> netloc, path |-> path,
     slash |-> slash, frag |-> frag]

\* an href without scheme and host: an absolute path on the page's site
Path(path) == Url("", "", path, FALSE, FALSE)

\* element.get('href') of an element without href, or with href=""
NoHref == Url("", "", <<>>, FALSE, FALSE)

\* the hrefs the pages of the model hold
Hrefs ==
    {NoHref,
     Path(<<"news", "a1">>),
     Path(<<"news", "a2">>),
     Path(<<"Video", "foo">>),
     Path(<<"news", "video">>),
     Path(<<"subscribe">>),
     Url("", "", <<"news", "a1">>, FALSE, TRUE),
     Url("javascript", "", <<>>, FALSE, FALSE),
     Url("mailto", "", <<>>, FALSE, FALSE),
     Url("https", "other.example", <<"story">>, FALSE, FALSE),
     Url("https", "WWW.BBC.COM", <<"news", "a3">>, FALSE, FALSE)}

\* the base_url of a source on the single-domain list, and of one that is not
BaseUrls ==
    {Url("https", "www.bbc.com", <<"news">>, FALSE, FALSE),
     Url("https", "news.ycombinator.com", <<>>, FALSE, FALSE)}

\* the max_articles of the sources
MaxArticlesSet == {1, 2, 20}
MaxPage == 3

\* str.lower() on the hosts and path segments of the model
LowerPart(x) ==
    IF x = "WWW.BBC.COM" THEN "www.bbc.com"
    ELSE IF x = "Video" THEN "video"
    ELSE x

\* urljoin(self.base_url, href)
UrlJoin(base, href) ==
    IF href.scheme # "" THEN href
    ELSE IF href.netloc # "" THEN [href EXCEPT !.scheme = base.scheme]
    ELSE [href EXCEPT !.scheme = base.scheme, !.netloc = base.netloc]

\* allowed_domains
AllowedDomains ==
    {"www.bbc.com", "www.theguardian.com", "www.npr.org", "apnews.com",
     "www.sciencedaily.com", "www.livescience.com",
     "techcrunch.com", "arstechnica.com", "www.engadget.com"}

\* the invalid_patterns of the form /name/ and of the form /name
SegmentPatterns ==
    {"video", "gallery", "live", "sport", "podcast", "tag", "author",
     "category", "search"}
PrefixPatterns == {"subscribe", "newsletter"}
SchemePatterns == {"javascript", "mailto", "tel"}

\* the path segments of the model that start with the given word
StartsWith(segment, word) ==
    \/ segment = word
    \/ segment = "newsletters" /\ word = "newsletter"

\* re.search(pattern, url, re.IGNORECASE) for one of invalid_patterns
MatchesInvalidPattern(url) ==
    \/ \E i \in 1..Len(url.path) :
          /\ LowerPart(url.path[i]) \in SegmentPatterns
          /\ (i < Len(url.path) \/ url.slash)
    \/ \E i \in 1..Len(url.path) : \E w \in PrefixPatterns :
          StartsWith(LowerPart(url.path[i]), w)
    \/ url.frag
    \/ LowerPart(url.scheme) \in SchemePatterns

\* _is_valid_article_url(url)
IsValidArticleUrl_anydomain(url, base) ==
    /\ url.scheme # "" /\ url.netloc # ""
    /\ ~MatchesInvalidPattern(url)
IsValidArticleUrl(url, base) ==
    /\ url.scheme # "" /\ url.netloc # ""
    /\ (LowerPart(base.netloc) \in AllowedDomains
           => LowerPart(url.netloc) = LowerPart(base.netloc))
    /\ ~MatchesInvalidPattern(url)

\* the loop of extract_article_links over elements[:self.max_articles]
RECURSIVE CollectLinks(_, _)
CollectLinks(elements, base) ==
    IF elements = <<>> THEN <<>>
    ELSE LET href == Head(elements)
             full_url == UrlJoin(base, href)
         IN  (IF href # NoHref /\ IsValidArticleUrl(full_url, base)
                THEN <<full_url>> ELSE <<>>)
                 \o CollectLinks(Tail(elements), base)

\* the lists list(set(links)) can be: the distinct links in any order
ListsOfSet_list(links) == {links}
ListsOfSet(links) ==
    LET S == {links[i] : i \in 1..Len(links)}
        n == Cardinality(S)
    IN  {l \in [1..n -> S] : \A i, j \in 1..n : i # j => l[i] # l[j]}

LinkIdle ==
    /\ base_url = NoHref
    /\ max_articles = 20
    /\ linkPc = "idle"
    /\ page = <<>>
    /\ linkResult = <<>>
    /\ loopPc = "idle"
    /\ visited = <<>>
    /\ fetched = <<>>

\* extract_article_links(soup), soup.select(link_selector) being `elements`
ExtractArticleLinks(elements) ==
    /\ linkPc = "idle"
    /\ linkPc' = "done"
    /\ page' = elements
    /\ \E links \in {CollectLinks(SubSeq(elements, 1,
                            IF max_articles < Len(elements)
                              THEN max_articles ELSE Len(elements)),
                                   base_url)} :
          linkResult' \in ListsOfSet(links)
    /\ UNCHANGED <<base_url, max_articles, loopPc, visited, fetched>>
    /\ UNCHANGED <<fetchVars, storeVars, trendVars, dedupVars, qualityVars, pipeVars, kwVars, runVars, concVars>>

\* fetch_articles: fetch_page(self.base_url) returned None, return []
MainPageFails ==
    /\ linkPc = "idle" /\ loopPc = "idle"
    /\ loopPc' = "returned"
    /\ UNCHANGED <<base_url, max_articles, linkPc, page, linkResult, visited,
                   fetched>>
    /\ UNCHANGED <<fetchVars, storeVars, trendVars, dedupVars, qualityVars, pipeVars, kwVars, runVars, concVars>>

\* one iteration of `for i, link in enumerate(article_links)`: the sleep
\* when i > 0, then extract_article_content(link), whose article is
\* appended when it is not None (`ok`)
VisitLink(ok) ==
    /\ linkPc = "done" /\ loopPc \in {"idle", "loop"}
    /\ Len(visited) < Len(linkResult)
    /\ loopPc' = "loop"
    /\ \E link \in {linkResult[Len(visited) + 1]} :
          /\ visited' = Append(visited, link)
          /\ fetched' = IF ok THEN Append(fetched, link) ELSE fetched
    /\ UNCHANGED <<base_url, max_articles, linkPc, page, linkResult>>
    /\ UNCHANGED <<fetchVars, storeVars, trendVars, dedupVars, qualityVars, pipeVars, kwVars, runVars, concVars>>

\* the loop is over: return articles
FetchArticlesReturn ==
    /\ linkPc = "done" /\ loopPc \in {"idle", "loop"}
    /\ Len(visited) = Len(linkResult)
    /\ loopPc' = "returned"
    /\ UNCHANGED <<base_url, max_articles, linkPc, page, linkResult, visited,
                   fetched>>
    /\ UNCHANGED <<fetchVars, storeVars, trendVars, dedupVars, qualityVars, pipeVars, kwVars, runVars, concVars>>

(***************************************************************************)
(* ContentExtractor.is_quality_content                                     *)
(***************************************************************************)
\* A title is a sequence of words and single blanks; a body is a sequence of
\* chunks, each a piece of text followed by a (possibly empty) run of
\* sentence-terminating punctuation.
Blank == Token(" ")
Word == Token("Hi")

\* `words` words, `gap` blanks between two of them, `lead` blanks in front
RECURSIVE TitleOf(_, _, _)
TitleOf(words, gap, lead) ==
    IF lead > 0 THEN <<Blank>> \o TitleOf(words, gap, lead - 1)
    ELSE IF words = 0 THEN <<>>
    ELSE IF words = 1 THEN <<Word>>
    ELSE <<Word>> \o Repeat(Blank, gap) \o TitleOf(words - 1, gap, 0)

\* the titles of the model
MaxTitleWords == 21
TitleShapes ==
    {<<0, 1, 0>>, <<0, 1, 2>>, <<1, 1, 0>>, <<2, 1, 0>>, <<3, 1, 0>>,
     <<3, 2, 1>>}
        \cup {<<words, 1, 0>> : words \in 20..MaxTitleWords}
Titles == {TitleOf(t[1], t[2], t[3]) : t \in TitleShapes}

\* the pieces of text and the punctuation runs of the bodies of the model
LongText == 100
Pieces ==
    {Filler(0), Token("short"), Filler(LongText),
     Token("Click Here"), Token("buy now"), Token("subscribers")}
Stops == {Filler(0), Token("."), Token("?!")}
Chunks == {<<p, e>> : p \in Pieces, e \in Stops}
MaxChunks == 3
MinLengths == {12, 100}

\* title.split(): the maximal runs of non-blank characters
RECURSIVE Split(_, _)
Split(title, inWord) ==
    IF title = <<>> THEN <<>>
    ELSE IF Head(title) = Blank THEN Split(Tail(title), FALSE)
    ELSE IF inWord THEN Split(Tail(title), TRUE)
    ELSE <<Head(title)>> \o Split(Tail(title), TRUE)

\* len(content)
RECURSIVE ContentLen(_)
ContentLen(content) ==
    IF content = <<>> THEN 0
    ELSE Head(content)[1].n + Head(content)[2].n + ContentLen(Tail(content))

\* spam_indicators
SpamIndicators ==
    {"click here", "buy now", "limited time", "act now",
     "free trial", "sign up now", "subscribe", "download now"}

\* `indicator in text` for the lower-cased pieces of the model
OccursIn_exact(indicator, text) == text = indicator
OccursIn(indicator, text) ==
    \/ text = indicator
    \/ indicator = "subscribe" /\ text = "subscribers"

\* sum(1 for indicator in spam_indicators if indicator in content_lower)
SpamCount(content) ==
    Cardinality({ind \in SpamIndicators :
        \E i \in 1..Len(content) : OccursIn(ind, Lower(content[i][1].w))})

\* len(re.findall(r'[.!?]+', content)): the maximal runs of punctuation
SentenceCount(content) ==
    Cardinality({i \in 1..Len(content) :
        /\ content[i][2].n > 0
        /\ (i = Len(content) \/ content[i + 1][1].n > 0
               \/ content[i + 1][2].n = 0)})

\* title_words < 3 or title_words > 20
BadTitleLength_21(title_words) == title_words < 3 \/ title_words > 21
BadTitleLength(title_words) == title_words < 3 \/ title_words > 20

\* is_quality_content(title, content, min_length)
IsQualityContent(title, content, min_length) ==
    IF Len(title) = 0 \/ ContentLen(content) = 0 THEN FALSE
    ELSE IF ContentLen(content) < min_length THEN FALSE
    ELSE IF BadTitleLength(Len(Split(title, FALSE))) THEN FALSE
    ELSE IF SpamCount(content) > 2 THEN FALSE
    ELSE IF SentenceCount(content) < 3 THEN FALSE
    ELSE TRUE

QualityCheck(title, content, min_length) ==
    /\ qPc = "idle"
    /\ qPc' = "done"
    /\ qArg' = [title |-> title, content |-> content,
                min_length |-> min_length]
    /\ qResult' = IsQualityContent(title, content, min_length)
    /\ UNCHANGED <<fetchVars, storeVars, trendVars, dedupVars, linkVars, pipeVars, kwVars, runVars, concVars>>

QualityIdle ==
    /\ qPc = "idle"
    /\ qArg = [title |-> <<>>, content |-> <<>>, min_length |-> 0]
    /\ qResult = FALSE

(***************************************************************************)
(* ContentExtractor.extract_keywords                                       *)
(***************************************************************************)
\* A text is a sequence of words separated by single blanks.  A keyword is
\* a feature of the vectorizer: a word, or two consecutive words.
KwWords == {"Election", "Vote", "about", "this", "the", "2024", "http://x.io"}
BlockSizes == {4, 5}
MaxBlocks == 3
MaxKeywordsSet == {1, 10}

\* the text made of the blocks: each word repeated as often as its block says
RECURSIVE TextOf(_)
TextOf(blocks) ==
    IF blocks = <<>> THEN <<>>
    ELSE Repeat(Head(blocks)[1], Head(blocks)[2]) \o TextOf(Tail(blocks))

\* clean_text(text).split(): tags and URLs are removed, blanks collapsed
CleanWords(text) == SelectSeq(text, LAMBDA w : w # "http://x.io")

\* if len(words) < 10: return ""
MinWords == 10

\* the members of sklearn's English stop word list among the words
SklearnStopWords == {"about", "this", "the"}

\* stop_words of _extract_keywords_fallback
FallbackStopWords ==
    {"this", "that", "with", "have", "will", "from", "they", "been",
     "were", "said", "each", "which", "their", "time", "would", "there",
     "could", "other", "more", "very", "what", "know", "just", "first",
     "get", "over", "think", "also", "back", "after", "use", "two",
     "how", "our", "work", "life", "only", "can", "still", "should",
     "must", "want", "need", "make", "take", "come", "year", "years"}

\* the distinct members of a sequence, in order of first occurrence
RECURSIVE Distinct(_, _)
Distinct(seq, seen) ==
    IF seq = <<>> THEN <<>>
    ELSE IF Head(seq) \in seen THEN Distinct(Tail(seq), seen)
    ELSE <<Head(seq)>> \o Distinct(Tail(seq), seen \cup {Head(seq)})

\* the position of a word in alphabetical order
WordRank(w) ==
    IF w = "2024" THEN 1
    ELSE IF w = "about" THEN 2
    ELSE IF w = "election" THEN 3
    ELSE IF w = "the" THEN 4
    ELSE IF w = "this" THEN 5
    ELSE 6

\* feature f sorts before feature g
RECURSIVE FeatureLess(_, _)
FeatureLess(f, g) ==
    IF g = <<>> THEN FALSE
    ELSE IF f = <<>> THEN TRUE
    ELSE IF WordRank(Head(f)) # WordRank(Head(g))
      THEN WordRank(Head(f)) < WordRank(Head(g))
    ELSE FeatureLess(Tail(f), Tail(g))

\* get_feature_names_out(): the features in alphabetical order
Alphabetical(features) ==
    LET n == Cardinality(features)
    IN  [i \in 1..n |->
            CHOOSE f \in features :
                Cardinality({g \in features : FeatureLess(g, f)}) = i - 1]

\* the analyzer of the vectorizer: lower-cased tokens of two or more word
\* characters that are not stop words
Terms(words) ==
    SelectSeq([i \in 1..Len(words) |-> Lower(words[i])],
              LAMBDA w : Len(w) >= 2 /\ w \notin SklearnStopWords)

\* the 1-grams and 2-grams of the terms, with repetitions
Grams(terms) ==
    [i \in 1..Len(terms) |-> <<terms[i]>>] \o
    [i \in 1..(Len(terms) - 1) |-> <<terms[i], terms[i + 1]>>]

\* the one member of a singleton set
Only(S) == CHOOSE x \in S : TRUE

\* the try block: with one document every idf is 1, so the tf-idf score of
\* a feature grows with its count; the sort is stable
PrimaryKeywords(words, max_keywords) ==
    Only({Only({Only({Take(SortDesc(names, scores), max_keywords) :
                        scores \in {[i \in 1..Len(names) |->
                                        Count(grams, names[i])]}}) :
                  names \in {Alphabetical(Range(grams))}}) :
            grams \in {Grams(Terms(words))}})

\* fit_transform raises ValueError: empty vocabulary
PrimaryFails(words) == Terms(words) = <<>>

\* _extract_keywords_fallback(text, max_keywords)
FallbackWords(w) == IsAlpha(w) /\ Len(w) >= 4 /\ w \notin FallbackStopWords

FallbackKeywords(words, max_keywords) ==
    LET filtered_words ==
            SelectSeq([i \in 1..Len(words) |-> Lower(words[i])],
                      LAMBDA w : FallbackWords(w))
        found == Distinct(filtered_words, {})
        sorted_words ==
            SortDesc(found,
                     [i \in 1..Len(found) |-> Count(filtered_words, found[i])])
    IN  [i \in 1..Min(max_keywords, Len(found)) |-> <<sorted_words[i]>>]

KeywordIdle ==
    /\ kwPc = "idle"
    /\ kwArg = [text |-> <<>>, max_keywords |-> 0]
    /\ kwPath = "none"
    /\ kwResult = <<>>

\* extract_keywords(text, max_keywords); `fault` says that the try block
\* raises for another reason than an empty vocabulary
ExtractKeywordsCall(text, max_keywords, fault) ==
    /\ kwPc = "idle"
    /\ kwPc' = "done"
    /\ kwArg' = [text |-> text, max_keywords |-> max_keywords]
    /\ \E words \in {CleanWords(text)} :
          IF Len(words) < MinWords
            THEN /\ kwPath' = "short"
                 /\ kwResult' = <<>>
            ELSE IF fault \/ PrimaryFails(words)
              THEN /\ kwPath' = "fallback"
                   /\ kwResult' = FallbackKeywords(words, max_keywords)
              ELSE /\ kwPath' = "primary"
                   /\ kwResult' = PrimaryKeywords(words, max_keywords)
    /\ UNCHANGED <<fetchVars, storeVars, trendVars, dedupVars, linkVars,
                   qualityVars, pipeVars, runVars, concVars>>

(***************************************************************************)
(* The scrape run: NewsSourceManager.scrape_all_sources, with              *)
(* BaseScraper.fetch_articles and extract_article_content for each source, *)
(* then the loop of NewsScheduler.scrape_all_sources over the results.     *)
(***************************************************************************)
\* self.scrapers, in insertion order, and the rate_limit and max_articles
\* of each source
SourceNames == <<"bbc", "hn">>
RateLimits == <<2, 1>>
SourceMaxArticles == <<1, 20>>
MaxLinks == 2
MinContentLengths == {100, 200}

\* the default min_length of is_quality_content, which the loop relies on
DefaultMinLength == 100

\* bodies of 113 and of 208 characters, with three sentences each
ContentMedium ==
    <<<<Filler(LongText), Token(".")>>, <<Token("short"), Token(".")>>,
      <<Token("short"), Token(".")>>>>
ContentLong ==
    <<<<Filler(LongText), Token(".")>>, <<Filler(LongText), Token(".")>>,
      <<Token("short"), Token(".")>>>>

\* What the site answers for one URL: the number of requests that fail
\* with a RequestException before one succeeds (retry_attempts when none
\* does), whether an exception of another class escapes fetch_page,
\* whether the extraction raises, and the title and body that
\* _extract_title and _extract_content find.
Answer(fails, escapes, broken, title, content) ==
    [fails |-> fails, escapes |-> escapes, broken |-> broken,
     title |-> title, content |-> content]

Unavailable == Answer(MaxRetry, FALSE, FALSE, <<>>, <<>>)
Available == Answer(0, FALSE, FALSE, <<>>, <<>>)
Crash == Answer(0, TRUE, FALSE, <<>>, <<>>)

ArticleAnswers ==
    {Unavailable, Crash,
     Answer(0, FALSE, TRUE, <<>>, <<>>),
     Answer(0, FALSE, FALSE, <<>>, ContentLong),
     Answer(0, FALSE, FALSE, TitleOf(3, 1, 0), ContentMedium),
     Answer(1, FALSE, FALSE, TitleOf(3, 1, 0), ContentLong),
     Answer(0, FALSE, FALSE, TitleOf(1, 1, 0), ContentLong)}

\* the events of the log
Event(ev, src, link, secs) ==
    [ev |-> ev, src |-> src, link |-> link, secs |-> secs]

\* what fetch_page does for an answer: a request per attempt, a backoff
\* sleep after each failed one but the last
RECURSIVE FetchLog(_, _, _, _)
FetchLog(src, link, answer, k) ==
    IF k >= retry_attempts THEN <<>>
    ELSE <<Event("request", src, link, 0)>> \o
         (IF answer.escapes \/ k >= answer.fails THEN <<>>
          ELSE (IF SleepsAfter(k, retry_attempts)
                  THEN <<Event("backoff", src, link, Backoff(k))>>
                  ELSE <<>>)
               \o FetchLog(src, link, answer, k + 1))

\* fetch_page returned a page
Fetched(answer) == ~answer.escapes /\ answer.fails < retry_attempts

\* the checks of extract_article_content on the extracted title and content
Rejected_nolength(answer) ==
    \/ answer.broken
    \/ Len(answer.title) = 0 \/ ContentLen(answer.content) = 0
Rejected(answer) ==
    \/ answer.broken
    \/ Len(answer.title) = 0 \/ ContentLen(answer.content) = 0
    \/ ContentLen(answer.content) < min_content_length

\* the Article extract_article_content returns
ArticleFrom(src, link, answer) ==
    [url |-> Urls[(src - 1) * MaxLinks + link], src |-> src, link |-> link,
     title |-> answer.title, content |-> answer.content,
     sentiment |-> 0, keywords |-> ""]

PipeIdle ==
    /\ min_content_length = DefaultMinLength
    /\ pipePc = "idle"
    /\ srcIdx = 0
    /\ discovered = <<>>
    /\ linkIdx = 0
    /\ slept = FALSE
    /\ extracted = <<>>
    /\ results = <<>>
    /\ procSrc = 0
    /\ procIdx = 0
    /\ log = <<>>

PipeOthers ==
    UNCHANGED <<fetchVars, trendVars, dedupVars, linkVars, qualityVars,
                kwVars, runVars, concVars>>

\* scrape_all_sources: results = {}
ScrapeAllSources ==
    /\ pipePc = "idle"
    /\ pipePc' = "source"
    /\ srcIdx' = 1
    /\ UNCHANGED <<min_content_length, discovered, linkIdx, slept, extracted,
                   results, procSrc, procIdx, log>>
    /\ UNCHANGED storeVars /\ PipeOthers

\* fetch_articles up to the loop: the main page is fetched and its links
\* are extracted; without a page it returns [], and an exception that
\* escapes is caught by scrape_all_sources
FetchMainPage(answer, found) ==
    /\ pipePc = "source" /\ srcIdx <= Len(SourceNames)
    /\ found <= SourceMaxArticles[srcIdx]
    /\ log' = log \o FetchLog(srcIdx, 0, answer, 0) \o
                 (IF Fetched(answer) THEN <<>>
                  ELSE IF answer.escapes
                         THEN <<Event("raised", srcIdx, 0, 0)>>
                         ELSE <<Event("no_main_page", srcIdx, 0, 0)>>)
    /\ IF Fetched(answer)
         THEN /\ pipePc' = "link"
              /\ discovered' = Append(discovered, found)
              /\ linkIdx' = 1
              /\ slept' = FALSE
              /\ extracted' = <<>>
              /\ UNCHANGED <<results, srcIdx>>
         ELSE /\ results' = Append(results, <<>>)
              /\ discovered' = Append(discovered, 0)
              /\ srcIdx' = srcIdx + 1
              /\ UNCHANGED <<pipePc, linkIdx, slept, extracted>>
    /\ UNCHANGED <<min_content_length, procSrc, procIdx>>
    /\ UNCHANGED storeVars /\ PipeOthers

\* if i > 0: time.sleep(self.rate_limit)
NeedsSleep_always(i) == TRUE
NeedsSleep(i) == i > 1

RateLimitSleep ==
    /\ pipePc = "link" /\ linkIdx <= discovered[srcIdx]
    /\ NeedsSleep(linkIdx) /\ ~slept
    /\ slept' = TRUE
    /\ log' = Append(log, Event("rate_limit", srcIdx, linkIdx,
                                RateLimits[srcIdx]))
    /\ UNCHANGED <<min_content_length, pipePc, srcIdx, discovered, linkIdx,
                   extracted, results, procSrc, procIdx>>
    /\ UNCHANGED storeVars /\ PipeOthers

\* the loop variable after a link that gave no article: the loop goes on
AfterFailure_break(i, found) == found + 1
AfterFailure(i, found) == i + 1

\* article = self.extract_article_content(link); if article: append
ExtractArticleContent(answer) ==
    /\ pipePc = "link" /\ linkIdx <= discovered[srcIdx]
    /\ NeedsSleep(linkIdx) => slept
    /\ IF answer.escapes
         THEN /\ log' = log \o FetchLog(srcIdx, linkIdx, answer, 0)
                         \o <<Event("raised", srcIdx, linkIdx, 0)>>
              /\ results' = Append(results, <<>>)
              /\ srcIdx' = srcIdx + 1
              /\ pipePc' = "source"
              /\ linkIdx' = 0
              /\ slept' = FALSE
              /\ extracted' = <<>>
         ELSE /\ IF Fetched(answer) /\ ~Rejected(answer)
                   THEN /\ extracted' = Append(extracted,
                               ArticleFrom(srcIdx, linkIdx, answer))
                        /\ log' = log \o FetchLog(srcIdx, linkIdx, answer, 0)
                               \o <<Event("extracted", srcIdx, linkIdx, 0)>>
                        /\ linkIdx' = linkIdx + 1
                   ELSE /\ extracted' = extracted
                        /\ log' = log \o FetchLog(srcIdx, linkIdx, answer, 0)
                               \o <<Event("failed", srcIdx, linkIdx, 0)>>
                        /\ linkIdx' = AfterFailure(linkIdx,
                                                   discovered[srcIdx])
              /\ slept' = FALSE
              /\ UNCHANGED <<pipePc, srcIdx, results>>
    /\ UNCHANGED <<min_content_length, discovered, procSrc, procIdx>>
    /\ UNCHANGED storeVars /\ PipeOthers

\* return articles; results[source_name] = articles
ReturnArticles ==
    /\ pipePc = "link" /\ linkIdx > discovered[srcIdx]
    /\ results' = Append(results, extracted)
    /\ srcIdx' = srcIdx + 1
    /\ pipePc' = "source"
    /\ linkIdx' = 0
    /\ slept' = FALSE
    /\ extracted' = <<>>
    /\ UNCHANGED <<min_content_length, discovered, procSrc, procIdx, log>>
    /\ UNCHANGED storeVars /\ PipeOthers

\* the loop over all_results.items() starts
StartProcessing ==
    /\ pipePc = "source" /\ srcIdx > Len(SourceNames)
    /\ pipePc' = "process"
    /\ procSrc' = 1
    /\ procIdx' = 1
    /\ UNCHANGED <<min_content_length, srcIdx, discovered, linkIdx, slept,
                   extracted, results, log>>
    /\ UNCHANGED storeVars /\ PipeOthers

\* the articles of one source are done
NextSource ==
    /\ pipePc = "process" /\ procSrc <= Len(results)
    /\ procIdx > Len(results[procSrc])
    /\ procSrc' = procSrc + 1
    /\ procIdx' = 1
    /\ UNCHANGED <<min_content_length, pipePc, srcIdx, discovered, linkIdx,
                   slept, extracted, results, log>>
    /\ UNCHANGED storeVars /\ PipeOthers

FinishRun ==
    /\ pipePc = "process" /\ procSrc > Len(results)
    /\ pipePc' = "done"
    /\ UNCHANGED <<min_content_length, srcIdx, discovered, linkIdx, slept,
                   extracted, results, procSrc, procIdx, log>>
    /\ UNCHANGED storeVars /\ PipeOthers

\* if self.content_extractor.is_quality_content(article.title, article.content)
Accepts_all(article) == TRUE
Accepts(article) ==
    IsQualityContent(article.title, article.content, DefaultMinLength)

CheckQuality ==
    /\ pipePc = "process" /\ procSrc <= Len(results)
    /\ procIdx <= Len(results[procSrc])
    /\ LET article == results[procSrc][procIdx]
       IN  IF Accepts(article)
             THEN /\ pipePc' = "tag"
                  /\ procIdx' = procIdx
                  /\ log' = Append(log, Event("accepted", article.src,
                                              article.link, 0))
             ELSE /\ pipePc' = "process"
                  /\ procIdx' = procIdx + 1
                  /\ log' = Append(log, Event("rejected", article.src,
                                              article.link, 0))
    /\ UNCHANGED <<min_content_length, srcIdx, discovered, linkIdx, slept,
                   extracted, results, procSrc>>
    /\ UNCHANGED storeVars /\ PipeOthers

\* what extract_keywords can return for a body
KeywordStrings == {"", "election, vote"}

\* the sentiment, the summary and the keywords are set on the article;
\* when one of the three calls raises, the except clause of the loop skips
\* the article
TagArticle(raises, keywords) ==
    /\ pipePc = "tag"
    /\ LET article == results[procSrc][procIdx]
       IN  IF raises
             THEN /\ pipePc' = "process"
                  /\ procIdx' = procIdx + 1
                  /\ results' = results
                  /\ log' = Append(log, Event("error", article.src,
                                              article.link, 0))
             ELSE /\ pipePc' = "store"
                  /\ procIdx' = procIdx
                  /\ results' = [results EXCEPT
                                    ![procSrc][procIdx].keywords = keywords]
                  /\ log' = Append(log, Event("keywords", article.src,
                                              article.link, 0))
    /\ UNCHANGED <<min_content_length, srcIdx, discovered, linkIdx, slept,
                   extracted, procSrc>>
    /\ UNCHANGED storeVars /\ PipeOthers

\* self.db_manager.add_article(article)
StoreArticle ==
    /\ pipePc = "store"
    /\ LET article == results[procSrc][procIdx]
       IN  /\ AddArticle(article)
           /\ log' = Append(log, Event("add", article.src, article.link, 0))
    /\ pipePc' = "process"
    /\ procIdx' = procIdx + 1
    /\ UNCHANGED <<min_content_length, srcIdx, discovered, linkIdx, slept,
                   extracted, results, procSrc>>
    /\ PipeOthers

(***************************************************************************)
(* Two runs of the processing loop over one database: the scheduled scrape *)
(* (NewsScheduler.scrape_all_sources) and the scrape of POST /api/scrape   *)
(* (trigger_scraping)                                                      *)
(***************************************************************************)
Runs == <<"scheduler", "api">>
Scheduler == 1
Api == 2

\* last_scraped TIMESTAMP of a source that was never scraped: NULL
NoStamp == 0 - 1

\* a row of the sources table as add_source inserts it
NewSourceRow ==
    [success_count |-> 0, error_count |-> 0, last_scraped |-> NoStamp]

\* articles as the scrape returns them: accepted by the quality filter, or
\* turned down for a title of one word
Good(url, src) ==
    [url |-> url, src |-> src, link |-> 1, title |-> TitleOf(3, 1, 0),
     content |-> ContentLong, sentiment |-> 0, keywords |-> ""]
Poor(url, src) ==
    [url |-> url, src |-> src, link |-> 1, title |-> TitleOf(1, 1, 0),
     content |-> ContentLong, sentiment |-> 0, keywords |-> ""]

\* the articles of the runs: two sources name the article "u1"
RunArticles == {Good("u1", 1), Good("u1", 2), Good("u2", 2), Poor("u3", 1)}
MaxQueue == 2
SchedulerQueues ==
    UNION {[1..n -> RunArticles] : n \in 0..MaxQueue}
ApiQueues ==
    {<<>>, <<Good("u1", 1)>>, <<Good("u1", 1), Good("u2", 2)>>,
     <<Good("u2", 2), Good("u1", 1)>>, <<Poor("u3", 1), Good("u1", 2)>>}

\* the sources that have a row in the sources table
SourceRowSets == {{1}, {1, 2}}

RunsIdle ==
    /\ runPc = <<"idle", "idle">>
    /\ runQueue = <<<<>>, <<>>>>
    /\ runIdx = <<0, 0>>
    /\ processedCount = <<0, 0>>
    /\ runLog = <<<<>>, <<>>>>
    /\ sourcesTable = <<>>

RunEvent(ev, idx, success) == [ev |-> ev, idx |-> idx, success |-> success]

\* update_source_stats(source_name, success): one UPDATE ... WHERE name = ?
UpdateSourceStats_both(table, src, success, now) ==
    IF src \notin DOMAIN table THEN table
    ELSE [table EXCEPT ![src] =
             [success_count |-> @.success_count + 1,
              error_count |-> @.error_count + 1,
              last_scraped |-> now]]
UpdateSourceStats(table, src, success, now) ==
    IF src \notin DOMAIN table THEN table
    ELSE IF success
      THEN [table EXCEPT ![src].success_count = @ + 1,
                         ![src].last_scraped = now]
      ELSE [table EXCEPT ![src].error_count = @ + 1]

\* if self.db_manager.add_article(article): the id is truthy, None is not
Counted_always(id) == TRUE
Counted(id) == id # NoneId

RunOthers ==
    UNCHANGED <<fetchVars, trendVars, dedupVars, linkVars, qualityVars,
                pipeVars, kwVars, concVars>>

\* the scrape of run r returned `queue`; the loop over the articles starts
RunStart(r, queue) ==
    /\ runPc[r] = "idle"
    /\ runPc' = [runPc EXCEPT ![r] = "loop"]
    /\ runQueue' = [runQueue EXCEPT ![r] = queue]
    /\ runIdx' = [runIdx EXCEPT ![r] = 1]
    /\ UNCHANGED <<processedCount, runLog, sourcesTable>>
    /\ UNCHANGED storeVars /\ RunOthers

\* if content_extractor.is_quality_content(article.title, article.content)
RunQuality(r) ==
    /\ runPc[r] = "loop" /\ runIdx[r] <= Len(runQueue[r])
    /\ IF Accepts(runQueue[r][runIdx[r]])
         THEN /\ runPc' = [runPc EXCEPT ![r] = "tag"]
              /\ runIdx' = runIdx
              /\ runLog' = [runLog EXCEPT ![r] =
                               Append(@, RunEvent("accepted", runIdx[r], FALSE))]
         ELSE /\ runPc' = runPc
              /\ runIdx' = [runIdx EXCEPT ![r] = @ + 1]
              /\ runLog' = [runLog EXCEPT ![r] =
                               Append(@, RunEvent("rejected", runIdx[r], FALSE))]
    /\ UNCHANGED <<runQueue, processedCount, sourcesTable>>
    /\ UNCHANGED storeVars /\ RunOthers

\* the sentiment, the summary and the keywords are computed.  When one of
\* the calls raises, the scheduler's `except Exception` of the loop body
\* goes on to update_source_stats(source_name, False); trigger_scraping has
\* no handler in its loop and answers with HTTP 500.
RunTag(r, raises) ==
    /\ runPc[r] = "tag"
    /\ runPc' = [runPc EXCEPT ![r] =
                    IF ~raises THEN "store"
                    ELSE IF r = Scheduler THEN "except" ELSE "raised"]
    /\ runLog' = [runLog EXCEPT ![r] =
                     IF raises THEN Append(@, RunEvent("error", runIdx[r], FALSE))
                     ELSE @]
    /\ UNCHANGED <<runQueue, runIdx, processedCount, sourcesTable>>
    /\ UNCHANGED storeVars /\ RunOthers

\* add_article(article), one INSERT in its own transaction, and the branch
\* on its result
RunStore(r) ==
    /\ runPc[r] = "store"
    /\ AddArticle(runQueue[r][runIdx[r]])
    /\ IF Counted(addResult')
         THEN /\ processedCount' = [processedCount EXCEPT ![r] = @ + 1]
              /\ runPc' = [runPc EXCEPT ![r] = "stats_ok"]
              /\ runLog' = [runLog EXCEPT ![r] =
                               Append(@, RunEvent("stored", runIdx[r], TRUE))]
         ELSE /\ processedCount' = processedCount
              /\ runPc' = [runPc EXCEPT ![r] = "stats_err"]
              /\ runLog' = [runLog EXCEPT ![r] =
                               Append(@, RunEvent("duplicate", runIdx[r], FALSE))]
    /\ UNCHANGED <<runQueue, runIdx, sourcesTable>>
    /\ RunOthers

\* update_source_stats(source, True / False), then the next article
RunStats(r) ==
    /\ runPc[r] \in {"stats_ok", "stats_err", "except"}
    /\ sourcesTable' =
          UpdateSourceStats(sourcesTable, runQueue[r][runIdx[r]].src,
                            runPc[r] = "stats_ok", clock)
    /\ runLog' = [runLog EXCEPT ![r] =
                     Append(@, RunEvent("stat", runIdx[r],
                                        runPc[r] = "stats_ok"))]
    /\ runPc' = [runPc EXCEPT ![r] = "loop"]
    /\ runIdx' = [runIdx EXCEPT ![r] = @ + 1]
    /\ UNCHANGED <<runQueue, processedCount>>
    /\ UNCHANGED storeVars /\ RunOthers

\* the loop is over: the run logs or returns its totals
RunFinish(r) ==
    /\ runPc[r] = "loop" /\ runIdx[r] > Len(runQueue[r])
    /\ runPc' = [runPc EXCEPT ![r] = "done"]
    /\ UNCHANGED <<runQueue, runIdx, processedCount, runLog, sourcesTable>>
    /\ UNCHANGED storeVars /\ RunOthers

(***************************************************************************)
(* Two threads on one ContentExtractor: extract_keywords and               *)
(* detect_duplicates use the one TfidfVectorizer made in __init__          *)
(***************************************************************************)
\* the texts of the threads: two with terms, one of stop words only
ConcTexts ==
    {TextOf(<<<<"Election", 5>>, <<"Vote", 5>>>>),
     TextOf(<<<<"Vote", 5>>, <<"Vote", 5>>>>),
     TextOf(<<<<"about", 5>>, <<"this", 5>>>>)}
MaxConcBatch == 2
ConcBatches == UNION {[1..n -> ConcTexts] : n \in 0..MaxConcBatch}

ConcIdle ==
    /\ vocabulary = <<>>
    /\ ckPc = "idle"
    /\ ckArg = [text |-> <<>>, max_keywords |-> 0]
    /\ ckScores = <<>>
    /\ ckResult = <<>>
    /\ cdPc = "idle"
    /\ cdBatch = <<>>
    /\ cdRows = <<>>
    /\ cdResult = <<>>

ConcOthers ==
    UNCHANGED <<fetchVars, storeVars, trendVars, dedupVars, linkVars,
                qualityVars, pipeVars, kwVars, runVars>>

\* the feature names a fit on the texts leaves in the vectorizer
FittedNames(texts) ==
    Alphabetical(UNION {Range(Grams(Terms(CleanWords(texts[i])))) :
                           i \in 1..Len(texts)})

\* the row of a text in the tf-idf matrix, reduced to its two 1-gram
\* columns "election" and "vote" (the weights of one document scale with
\* the counts of its terms)
TextRow(text) ==
    <<Count(Terms(text), "election"), Count(Terms(text), "vote")>>

\* keyword_scores = list(zip(feature_names, tfidf_scores)), sorted by
\* score, the first max_keywords of them
ZipKeywords(feature_names, tfidf_scores, max_keywords) ==
    Only({Take(SortDesc(SubSeq(feature_names, 1, n),
                        SubSeq(tfidf_scores, 1, n)), max_keywords) :
             n \in {Min(Len(feature_names), Len(tfidf_scores))}})

\* extract_keywords(text, max_keywords) up to the try block
CkStart(text, max_keywords) ==
    /\ ckPc = "idle"
    /\ ckArg' = [text |-> text, max_keywords |-> max_keywords]
    /\ ckPc' = IF Len(CleanWords(text)) < MinWords THEN "done" ELSE "fit"
    /\ UNCHANGED <<vocabulary, ckScores, ckResult, cdPc, cdBatch, cdRows,
                   cdResult>>
    /\ ConcOthers

\* tfidf_matrix = self.vectorizer.fit_transform([text]); the fit replaces
\* the vocabulary of the shared vectorizer.  An empty vocabulary raises
\* before that, and the except clause returns the fallback keywords.
CkFit ==
    /\ ckPc = "fit"
    /\ \E words \in {CleanWords(ckArg.text)} :
          IF PrimaryFails(words)
            THEN /\ ckPc' = "done"
                 /\ ckResult' = FallbackKeywords(words, ckArg.max_keywords)
                 /\ UNCHANGED <<vocabulary, ckScores>>
            ELSE /\ ckPc' = "names"
                 /\ \E names \in {FittedNames(<<ckArg.text>>)} :
                       /\ vocabulary' = names
                       /\ ckScores' =
                             [i \in 1..Len(names) |->
                                 Count(Grams(Terms(words)), names[i])]
                 /\ ckResult' = ckResult
    /\ UNCHANGED <<ckArg, cdPc, cdBatch, cdRows, cdResult>>
    /\ ConcOthers

\* feature_names = self.vectorizer.get_feature_names_out(), read from the
\* shared vectorizer, then the zip, the sort and the return
CkNames ==
    /\ ckPc = "names"
    /\ ckPc' = "done"
    /\ ckResult' = ZipKeywords(vocabulary, ckScores, ckArg.max_keywords)
    /\ UNCHANGED <<vocabulary, ckArg, ckScores, cdPc, cdBatch, cdRows,
                   cdResult>>
    /\ ConcOthers

\* detect_duplicates(articles) up to the try block
CdStart(texts) ==
    /\ cdPc = "idle"
    /\ cdBatch' = texts
    /\ cdPc' = IF TooFew(texts) THEN "done" ELSE "fit"
    /\ UNCHANGED <<vocabulary, ckPc, ckArg, ckScores, ckResult, cdRows,
                   cdResult>>
    /\ ConcOthers

\* tfidf_matrix = self.vectorizer.fit_transform(articles)
CdFit ==
    /\ cdPc = "fit"
    /\ IF \A i \in 1..Len(cdBatch) : PrimaryFails(CleanWords(cdBatch[i]))
         THEN /\ cdPc' = "done"
              /\ UNCHANGED <<vocabulary, cdRows>>
         ELSE /\ cdPc' = "loops"
              /\ vocabulary' = FittedNames(cdBatch)
              /\ cdRows' = [i \in 1..Len(cdBatch) |-> TextRow(cdBatch[i])]
    /\ UNCHANGED <<ckPc, ckArg, ckScores, ckResult, cdBatch, cdResult>>
    /\ ConcOthers

\* cosine_similarity(tfidf_matrix) and the two loops, on local values
CdLoops ==
    /\ cdPc = "loops"
    /\ cdPc' = "done"
    /\ cdResult' = GroupLoop(cdRows, 0, {}, <<>>)
    /\ UNCHANGED <<vocabulary, ckPc, ckArg, ckScores, ckResult, cdBatch,
                   cdRows>>
    /\ ConcOthers

(***************************************************************************)
(* Specifications                                                          *)
(***************************************************************************)
InitFetch ==
    /\ retry_attempts \in 0..MaxRetry
    /\ fpc = "idle"
    /\ attempt = 0
    /\ trace = <<>>
    /\ fresult = "pending"
    /\ StoreIdle /\ TrendIdle /\ DedupIdle /\ LinkIdle /\ QualityIdle
        /\ PipeIdle /\ KeywordIdle /\ RunsIdle /\ ConcIdle

NextFetch ==
    \/ FetchPageCall
    \/ ForAttempt
    \/ TryOk
    \/ \E err \in FetchErrors : TryFail(err)
    \/ BackoffSleep

SpecFetch == InitFetch /\ [][NextFetch]_vars

\* fetch_page runs on its caller's thread: once called it keeps executing
\* its next statement (a request or a sleep ends after a finite time:
\* session.get has timeout=self.timeout)
SpecFetchLive == InitFetch /\ [][NextFetch]_vars /\ WF_vars(NextFetch)

(***************************************************************************)
(* C27                                                                     *)
(***************************************************************************)
\* the 0-based attempt of the last request made
LastAttempt == Len(Requests) - 1

\* fetch_page returned the parsed document
Succeeded == fpc = "done" /\ fresult = "soup"

\* C27: fetch_page always terminates, whatever the attempts' outcomes.  It
\* returns the document on the first successful attempt: with the first
\* success at 0-based attempt k it has made exactly k+1 requests, all but
\* the last failed, and slept 2^k - 1 seconds; otherwise it returns None
\* after retry_attempts failed attempts.  It never makes more than
\* retry_attempts requests, and after returning it makes no further request
\* and no further sleep.
C27_FetchPageTerminates ==
    /\ [](Len(Requests) <= retry_attempts)
    /\ [](Succeeded =>
             /\ LastAttempt < retry_attempts
             /\ Requests[LastAttempt + 1].err = "ok"
             /\ \A k \in 1..LastAttempt : Requests[k].err \in FetchErrors
             /\ trace[Len(trace)].ev = "get"
             /\ Len(Sleeps) = LastAttempt
             /\ SleptSeconds(trace) = 2 ^ LastAttempt - 1)
    /\ [](AllFailed =>
             /\ Len(Requests) = retry_attempts
             /\ \A k \in 1..Len(Requests) : Requests[k].err \in FetchErrors)
    /\ [][fpc = "done" => UNCHANGED <<trace, fresult>>]_vars
    /\ (fpc = "for" ~> fpc = "done")

\* a success at the third attempt of four: 3 requests, 1 + 2 seconds slept
C27_Witness ==
    /\ Succeeded
    /\ retry_attempts = 4
    /\ Len(Requests) = 3
    /\ SleptSeconds(trace) = 3


InitStore ==
    FetchIdle /\ StoreIdle /\ TrendIdle /\ DedupIdle /\ LinkIdle /\ QualityIdle
        /\ PipeIdle /\ KeywordIdle /\ RunsIdle /\ ConcIdle

\* the wall clock advances
Tick ==
    /\ clock < MaxClock
    /\ clock' = clock + 12
    /\ UNCHANGED <<articles, addArg, addResult, addOutcome>>

\* add_article called with any article, any URL
StoreAdd ==
    /\ \E i \in 1..MaxUrls, k \in Kinds :
          AddArticle(ArticleOf(Urls[i], k))
    /\ UNCHANGED <<fetchVars, trendVars, dedupVars, linkVars, qualityVars, pipeVars, kwVars, runVars, concVars>>

NextStore == StoreAdd

SpecStore == InitStore /\ [][NextStore]_vars

InitTrend ==
    /\ tz \in TzOffsets
    /\ trendPc = "idle"
    /\ trendArgs = NoArgs
    /\ trendResult = <<>>
    /\ trendOutcome = "none"
    /\ extractCalls = 0
    /\ recPc = "idle"
    /\ recArg = <<>>
    /\ recResult = [num |-> 0, den |-> 1]
    /\ FetchIdle /\ StoreIdle /\ DedupIdle /\ LinkIdle /\ QualityIdle
        /\ PipeIdle /\ KeywordIdle /\ RunsIdle /\ ConcIdle

\* the store is filled with articles of fresh URLs, then queried once
TrendAdd(kinds, max) ==
    /\ trendPc = "idle"
    /\ Len(articles) < max
    /\ \E k \in kinds : AddArticle(ArticleOf(Urls[Len(articles) + 1], k))
    /\ UNCHANGED <<fetchVars, trendVars, dedupVars, linkVars, qualityVars, pipeVars, kwVars, runVars, concVars>>

TrendTick ==
    /\ trendPc = "idle"
    /\ Tick
    /\ UNCHANGED <<fetchVars, trendVars, dedupVars, linkVars, qualityVars, pipeVars, kwVars, runVars, concVars>>

TrendQuery ==
    /\ trendPc = "idle"
    /\ \E hb \in HoursBackSet, ma \in MinArticlesSet, mt \in MaxTopicsSet :
          \E fault \in FaultPoints : GetTrendingTopics(hb, ma, mt, fault)
    /\ UNCHANGED <<fetchVars, storeVars, dedupVars, linkVars, qualityVars, pipeVars, kwVars, runVars, concVars>>

NextTrend ==
    \/ TrendAdd(Kinds, MaxStore)
    \/ TrendTick
    \/ TrendQuery

SpecTrend == InitTrend /\ [][NextTrend]_vars

NextTrendHot ==
    \/ TrendAdd(HotKinds, MaxHot)
    \/ TrendQuery

SpecTrendHot == InitTrend /\ [][NextTrendHot]_vars

\* a query over the default 24 hours that meets no fault
TopQuery ==
    /\ trendPc = "idle"
    /\ \E ma \in MinArticlesSet, mt \in MaxTopicsSet :
          GetTrendingTopics(DefaultHoursBack, ma, mt, "none")
    /\ UNCHANGED <<fetchVars, storeVars, dedupVars, linkVars, qualityVars,
                   pipeVars, kwVars, runVars, concVars>>

NextTrendTop ==
    \/ TrendAdd(TopKinds, MaxTop)
    \/ TrendTick
    \/ TopQuery

\* a store of short articles, queried once
NextTrendFew ==
    \/ TrendAdd(FewKinds, MaxStore)
    \/ TrendTick
    \/ TrendQuery

SpecTrendFew == InitTrend /\ [][NextTrendFew]_vars

SpecTrendTop == InitTrend /\ [][NextTrendTop]_vars

InitDedup ==
    FetchIdle /\ StoreIdle /\ TrendIdle /\ DedupIdle /\ LinkIdle /\ QualityIdle
        /\ PipeIdle /\ KeywordIdle /\ RunsIdle /\ ConcIdle

DedupCall ==
    /\ dedupPc = "idle"
    /\ \E n \in 0..MaxBatch : \E rows \in [1..n -> Vectors] :
          \E fault \in DedupFaults : DetectDuplicates(rows, fault)

NextDedup == DedupCall

SpecDedup == InitDedup /\ [][NextDedup]_vars

InitLinks ==
    /\ base_url \in BaseUrls
    /\ max_articles \in MaxArticlesSet
    /\ linkPc = "idle"
    /\ page = <<>>
    /\ linkResult = <<>>
    /\ loopPc = "idle"
    /\ visited = <<>>
    /\ fetched = <<>>
    /\ FetchIdle /\ StoreIdle /\ TrendIdle /\ DedupIdle /\ QualityIdle
        /\ PipeIdle /\ KeywordIdle /\ RunsIdle /\ ConcIdle

LinksCall ==
    /\ linkPc = "idle"
    /\ \E n \in 0..MaxPage : \E elements \in [1..n -> Hrefs] :
          ExtractArticleLinks(elements)

NextLinks == LinksCall

SpecLinks == InitLinks /\ [][NextLinks]_vars

\* fetch_articles: link discovery followed by the loop over the links
NextArticles ==
    \/ LinksCall
    \/ MainPageFails
    \/ \E ok \in BOOLEAN : VisitLink(ok)
    \/ FetchArticlesReturn

SpecArticles == InitLinks /\ [][NextArticles]_vars

InitQuality ==
    /\ qPc = "idle"
    /\ qArg = [title |-> <<>>, content |-> <<>>, min_length |-> 0]
    /\ qResult = FALSE
    /\ FetchIdle /\ StoreIdle /\ TrendIdle /\ DedupIdle /\ LinkIdle
        /\ PipeIdle /\ KeywordIdle /\ RunsIdle /\ ConcIdle

QualityCall ==
    /\ qPc = "idle"
    /\ \E title \in Titles : \E n \in 0..MaxChunks :
         \E content \in [1..n -> Chunks] : \E min_length \in MinLengths :
             QualityCheck(title, content, min_length)

NextQuality == QualityCall

SpecQuality == InitQuality /\ [][NextQuality]_vars

InitPipe ==
    /\ min_content_length \in MinContentLengths
    /\ pipePc = "idle"
    /\ srcIdx = 0
    /\ discovered = <<>>
    /\ linkIdx = 0
    /\ slept = FALSE
    /\ extracted = <<>>
    /\ results = <<>>
    /\ procSrc = 0
    /\ procIdx = 0
    /\ log = <<>>
    /\ FetchIdle /\ StoreIdle /\ TrendIdle /\ DedupIdle /\ LinkIdle
        /\ QualityIdle /\ KeywordIdle /\ RunsIdle /\ ConcIdle

NextPipe ==
    \/ ScrapeAllSources
    \/ \E answer \in {Available, Unavailable, Crash} :
          \E found \in 0..MaxLinks : FetchMainPage(answer, found)
    \/ RateLimitSleep
    \/ \E answer \in ArticleAnswers : ExtractArticleContent(answer)
    \/ ReturnArticles
    \/ StartProcessing
    \/ NextSource
    \/ FinishRun
    \/ CheckQuality
    \/ \E raises \in BOOLEAN : \E keywords \in KeywordStrings :
          TagArticle(raises, keywords)
    \/ StoreArticle

SpecPipe == InitPipe /\ [][NextPipe]_vars

InitKeywords ==
    /\ kwPc = "idle"
    /\ kwArg = [text |-> <<>>, max_keywords |-> 0]
    /\ kwPath = "none"
    /\ kwResult = <<>>
    /\ FetchIdle /\ StoreIdle /\ TrendIdle /\ DedupIdle /\ LinkIdle
        /\ QualityIdle /\ PipeIdle /\ RunsIdle /\ ConcIdle

KeywordsCall ==
    /\ kwPc = "idle"
    /\ \E n \in 0..MaxBlocks : \E blocks \in [1..n -> KwWords \X BlockSizes] :
          \E max_keywords \in MaxKeywordsSet : \E fault \in BOOLEAN :
             ExtractKeywordsCall(TextOf(blocks), max_keywords, fault)

NextKeywords == KeywordsCall

SpecKeywords == InitKeywords /\ [][NextKeywords]_vars

(***************************************************************************)
(* C19                                                                     *)
(***************************************************************************)
\* the lower-cased words of the call's text, URLs left out
KeywordText ==
    LET words == CleanWords(kwArg.text)
    IN  [i \in 1..Len(words) |-> Lower(words[i])]

\* alphabetic tokens of length >= 4 that are not in the fixed stop word list
EligibleWords ==
    {w \in Range(KeywordText) :
        IsAlpha(w) /\ Len(w) >= 4 /\ w \notin FallbackStopWords}

TimesInText(w) == Count(KeywordText, w)

\* the primary method did not run, or ran and failed
PrimaryCannotRun == kwPc = "done" /\ kwPath # "primary"

\* C19: whenever the primary term-weighting method cannot run, on very
\* short text included, extract_keywords returns the frequency-based
\* fallback keywords: eligible words only, each once, in order of
\* non-increasing count, max_keywords of them or all of them if there are
\* fewer, and none left out that occurs more often than one returned.
C19_FallbackWhenPrimaryCannotRun ==
    PrimaryCannotRun =>
        /\ Len(kwResult) =
              Min(kwArg.max_keywords, Cardinality(EligibleWords))
        /\ \A i \in 1..Len(kwResult) :
              /\ Len(kwResult[i]) = 1
              /\ kwResult[i][1] \in EligibleWords
        /\ \A i, j \in 1..Len(kwResult) :
              i < j =>
                 /\ kwResult[i] # kwResult[j]
                 /\ TimesInText(kwResult[i][1]) >= TimesInText(kwResult[j][1])
        /\ \A w \in EligibleWords :
              <<w>> \notin Range(kwResult) =>
                 \A i \in 1..Len(kwResult) :
                    TimesInText(kwResult[i][1]) >= TimesInText(w)


InitRecency ==
    FetchIdle /\ StoreIdle /\ TrendIdle /\ DedupIdle /\ LinkIdle /\ QualityIdle
        /\ PipeIdle /\ KeywordIdle /\ RunsIdle /\ ConcIdle

RecencyCall ==
    /\ recPc = "idle"
    /\ \E n \in 0..MaxStamps :
          \E ts \in [1..n -> {Stamp(h) : h \in StampHours} \cup {BadStamp}] :
             CalculateRecencyScore(ts)
    /\ UNCHANGED <<fetchVars, storeVars, dedupVars, linkVars, qualityVars, pipeVars, kwVars, runVars, concVars>>

NextRecency == RecencyCall

SpecRecency == InitRecency /\ [][NextRecency]_vars

(***************************************************************************)
(* Claims about the article store                                          *)
(***************************************************************************)
UrlStored(url) == \E i \in 1..Len(articles) : articles[i].url = url

\* C2: the store never holds two articles with one URL; an add_article call
\* for a URL that is not stored appends the article and returns its id, and
\* a call for a stored URL returns None without raising and leaves the
\* stored articles (and so their count) as they were.
C2_OneArticlePerUrl ==
    /\ [](\A i, j \in 1..Len(articles) :
             articles[i].url = articles[j].url => i = j)
    /\ [][IF UrlStored(addArg'.url)
            THEN /\ addOutcome' = "returned"
                 /\ addResult' = NoneId
                 /\ articles' = articles
            ELSE /\ addOutcome' = "returned"
                 /\ addResult' # NoneId
                 /\ Len(articles') = Len(articles) + 1
                 /\ SubSeq(articles', 1, Len(articles)) = articles
                 /\ articles'[Len(articles')].id = addResult'
                 /\ articles'[Len(articles')].url = addArg'.url
                 /\ articles'[Len(articles')].title = addArg'.title
                 /\ articles'[Len(articles')].content = addArg'.content]_vars

\* a second insert of a stored URL, with another title, was turned down
C2_Witness ==
    /\ addOutcome = "returned"
    /\ addResult = NoneId
    /\ Len(articles) = 2
    /\ \E i \in 1..Len(articles) :
          /\ articles[i].url = addArg.url
          /\ articles[i].title # addArg.title

(***************************************************************************)
(* Claims about detect_duplicates                                          *)
(***************************************************************************)
\* the indices of the texts of the batch, 0-based as in the code
BatchIndices == 0..(Len(batch) - 1)

InSameCluster(i, j) ==
    \E c \in 1..Len(clusters) : i \in clusters[c] /\ j \in clusters[c]

InSomeCluster(i) == \E c \in 1..Len(clusters) : i \in clusters[c]

\* C3 as stated: any two texts of the batch whose cosine similarity is at
\* or above the threshold are in one returned cluster (when the similarities
\* could be computed).
C3_SimilarPairsClustered ==
    (dedupPc = "done" /\ dedupFault = "none") =>
        \A i, j \in BatchIndices :
            (i < j /\ Similar(batch[i + 1], batch[j + 1])) => InSameCluster(i, j)

\* C3 as amended: when the similarities could be computed, two texts i < j
\* at or above the threshold are in one returned cluster whenever neither of
\* them is a member of a cluster that holds an index smaller than i (the
\* clustering is greedy: a text taken by an earlier cluster is not compared
\* again).
C3_SeedPairsClustered ==
    (dedupPc = "done" /\ dedupFault = "none") =>
        \A i, j \in BatchIndices :
            (/\ i < j
             /\ Similar(batch[i + 1], batch[j + 1])
             /\ \A k \in BatchIndices :
                   k < i => ~InSameCluster(k, i) /\ ~InSameCluster(k, j))
                => InSameCluster(i, j)

\* a batch in which text 2 is similar to text 1, already taken by the
\* cluster of text 0, and also to text 3, with which it forms a cluster
C3_Witness ==
    /\ dedupPc = "done"
    /\ Len(batch) = 4
    /\ InSameCluster(0, 1)
    /\ Similar(batch[2], batch[3]) /\ ~InSameCluster(1, 2)
    /\ InSameCluster(2, 3)

\* C4: the returned clusters are sets of indices of the batch with at least
\* two members each, and no index is in two of them.
C4_ClustersDisjoint ==
    dedupPc = "done" =>
        /\ \A c \in 1..Len(clusters) :
              /\ clusters[c] \subseteq BatchIndices
              /\ Cardinality(clusters[c]) >= 2
        /\ \A c, d \in 1..Len(clusters) :
              c # d => clusters[c] \cap clusters[d] = {}

\* two clusters were returned, and a text similar to a member of the first
\* one is in the second
C4_Witness ==
    /\ dedupPc = "done"
    /\ Len(clusters) = 2
    /\ \E i \in clusters[1], j \in clusters[2] :
          Similar(batch[i + 1], batch[j + 1])

(***************************************************************************)
(* C26                                                                     *)
(***************************************************************************)
\* the cosine similarity of texts i and j of the batch is 0.8 or more
\* (16/25 or more when squared; the similarity of such rows is not negative)
AtThreshold(i, j) ==
    LET u == batch[i + 1]
        v == batch[j + 1]
    IN  /\ Dot(u, u) > 0 /\ Dot(v, v) > 0
        /\ 25 * Dot(u, v) * Dot(u, v) >= 16 * Dot(u, u) * Dot(v, v)

\* the smallest index of the c-th returned cluster
Seed(c) == CHOOSE i \in clusters[c] : \A j \in clusters[c] : i <= j

\* the indices taken by the clusters returned before the c-th
TakenBefore(c) == UNION {clusters[d] : d \in 1..(c - 1)}

\* the clusters computed and returned by the loops
Clustered == dedupPc = "done" /\ dedupFault = "none" /\ Len(batch) >= 2

\* C26: detect_duplicates is greedy, first-seen-wins.  Every returned
\* cluster consists of its smallest index i, which is in no earlier cluster,
\* and exactly the later indices j that are in no earlier cluster and whose
\* similarity to i is at or above the threshold (the threshold itself
\* included); the clusters are returned in increasing order of their seed;
\* and an index in no returned cluster had no later text left to cluster
\* with when its turn came.
C26_GreedyFirstSeenWins ==
    Clustered =>
        /\ \A c \in 1..Len(clusters) :
              /\ Seed(c) \notin TakenBefore(c)
              /\ clusters[c] =
                    {Seed(c)} \cup
                    {j \in BatchIndices :
                        /\ j > Seed(c)
                        /\ j \notin TakenBefore(c)
                        /\ AtThreshold(Seed(c), j)}
        /\ \A c, d \in 1..Len(clusters) : c < d => Seed(c) < Seed(d)
        /\ \A i \in BatchIndices :
              ~InSomeCluster(i) =>
                 \A j \in BatchIndices :
                    (j > i /\ AtThreshold(i, j)) =>
                       \E c \in 1..Len(clusters) :
                          Seed(c) < i /\ j \in clusters[c]

\* two clusters: the first holds a text exactly at the threshold from its
\* seed, and a text of the second is similar to a member of the first
C26_Witness ==
    /\ Clustered
    /\ Len(clusters) = 2
    /\ \E j \in clusters[1] :
          /\ j # Seed(1)
          /\ 25 * Dot(batch[Seed(1) + 1], batch[j + 1])
                * Dot(batch[Seed(1) + 1], batch[j + 1])
               = 16 * Dot(batch[Seed(1) + 1], batch[Seed(1) + 1])
                    * Dot(batch[j + 1], batch[j + 1])
    /\ \E i \in clusters[1], j \in clusters[2] : AtThreshold(i, j)

\* C18: detect_duplicates never raises; it returns no clusters when the
\* vectorization or the similarity computation fails, and for fewer than 2
\* texts it returns no clusters without attempting the vectorization.
C18_DedupNeverRaises ==
    dedupPc = "done" =>
        /\ ~dedupRaised
        /\ dedupFault # "none" => clusters = <<>>
        /\ Len(batch) < 2 => (clusters = <<>> /\ vectorizeCalls = 0)

\* two similar texts for which cosine_similarity raised
C18_Witness ==
    /\ dedupPc = "done"
    /\ Len(batch) = 2 /\ Similar(batch[1], batch[2])
    /\ dedupFault = "similarity"
    /\ clusters = <<>> /\ ~dedupRaised

(***************************************************************************)
(* Claims about the trending topics                                        *)
(***************************************************************************)
Topics == {trendResult[i] : i \in 1..Len(trendResult)}

\* the articles get_trending_topics read: those scraped at or after the cutoff
InputArticles ==
    SelectSeq(articles,
              LAMBDA r : r.scraped >= LocalNow - trendArgs.hours_back)

\* occurrences of a keyword among the words of a text
RECURSIVE Occurrences(_, _)
Occurrences(text, kw) ==
    IF text = <<>> THEN 0
    ELSE (IF Lower(Head(text).w) = kw.w /\ Head(text).n = kw.n THEN 1 ELSE 0)
            + Occurrences(Tail(text), kw)

TitleHits(r, kw) == Occurrences(r.title, kw)
BodyHits(r, kw) == Occurrences(Slice(r.content, BodyLimit), kw)

\* the number of input articles with the keyword in the title or in the
\* first 500 characters of the body
ArticlesWithKeyword(kw) ==
    Cardinality({i \in 1..Len(InputArticles) :
                    TitleHits(InputArticles[i], kw)
                        + BodyHits(InputArticles[i], kw) > 0})

\* C5: every returned topic has articles_count >= min_articles.
C5_MinArticles ==
    trendPc = "done" =>
        \A t \in Topics : t.articles_count >= trendArgs.min_articles

Election == Token("election")

WeightedHits(kw) ==
    SumSeq([i \in 1..Len(InputArticles) |->
               2 * TitleHits(InputArticles[i], kw)
                   + BodyHits(InputArticles[i], kw)])

\* the example of the specification: 4 articles within the last hour, 3
\* with "election" once in the title, 2 of these with it once in the body
\* too, 1 without it, no other word in 3 articles, min_articles = 3
ElectionScenario ==
    /\ trendPc = "done" /\ trendOutcome = "topics"
    /\ trendArgs.min_articles = 3
    /\ Len(articles) = 4
    /\ \A i \in 1..4 :
          LocalNow - articles[i].scraped \in 0..1
    /\ Cardinality({i \in 1..4 : TitleHits(articles[i], Election) = 1}) = 3
    /\ Cardinality({i \in 1..4 : /\ TitleHits(articles[i], Election) = 1
                                  /\ BodyHits(articles[i], Election) = 1}) = 2
    /\ Cardinality({i \in 1..4 : /\ TitleHits(articles[i], Election) = 1
                                  /\ BodyHits(articles[i], Election) = 0}) = 1
    /\ Cardinality({i \in 1..4 : /\ TitleHits(articles[i], Election) = 0
                                  /\ BodyHits(articles[i], Election) = 0}) = 1
    /\ \A i \in 1..4 : \A kw \in Range(AllKeywords(articles[i])) :
          kw # Election => ArticlesWithKeyword(kw) < 3

\* C6: the frequency of every returned topic is the sum over the input
\* articles of 2 x (title occurrences) + (occurrences in the first 500
\* characters of the body), and in the election example the result is the
\* single topic "election" with articles_count = 3 and frequency = 8.
C6_WeightedFrequency ==
    /\ trendPc = "done" =>
          \A t \in Topics : t.frequency = WeightedHits(t.keyword)
    /\ ElectionScenario =>
          /\ Len(trendResult) = 1
          /\ trendResult[1].keyword = Election
          /\ trendResult[1].articles_count = 3
          /\ trendResult[1].frequency = 8

\* C7: every returned topic has 0 <= trend_score <= 1 (scores are in
\* thousandths), the stored sentiment scores being within [-1, 1].
C7_TrendScoreBounded ==
    trendPc = "done" =>
        \A t \in Topics : t.trend_score >= 0 /\ t.trend_score <= 1000

\* the stored articles scraped at or after the cutoff of the call
RecentCount ==
    Cardinality({k \in 1..Len(articles) :
        articles[k].scraped >= LocalNow - trendArgs.hours_back})

\* C15: with fewer than min_articles articles scraped at or after the
\* cutoff, get_trending_topics returns an empty list and does not extract
\* keywords.
C15_TooFewArticles ==
    (trendPc = "done" /\ RecentCount < trendArgs.min_articles) =>
        /\ trendResult = <<>>
        /\ extractCalls = 0

\* the store holds enough articles, but all except one are older than the
\* cutoff
C15_Witness ==
    /\ trendPc = "done" /\ trendOutcome = "insufficient"
    /\ Len(articles) >= trendArgs.min_articles
    /\ RecentCount = 1
    /\ trendResult = <<>> /\ extractCalls = 0

\* the topics of all surviving keywords, computed from the store
SurvivingTopics ==
    LET recent == RecentArticles(articles, LocalNow - trendArgs.hours_back)
        data == ExtractKeywordsFromArticles(recent, LocalNow)
    IN  {TopicOf(kw, data[kw]) :
            kw \in {k \in DOMAIN data :
                       IsTrending(data[k], trendArgs.min_articles)}}

\* the stored articles that contribute to the keyword
Contributors(kw) ==
    {k \in 1..Len(articles) :
        /\ articles[k].scraped >= LocalNow - trendArgs.hours_back
        /\ TitleHits(articles[k], kw) + BodyHits(articles[k], kw) > 0}

C28_CountedOncePerArticle ==
    (trendPc = "done" /\ trendOutcome = "topics") =>
        \A t \in Topics :
            /\ t.articles_count = ArticlesWithKeyword(t.keyword)
            /\ t.articles_count <= t.frequency
            /\ t.articles_count <= Len(InputArticles)

\* a topic from two of three input articles, its keyword twice in the body
\* of one of them and in the title of both: frequency above articles_count
C28_Witness ==
    /\ trendPc = "done" /\ trendOutcome = "topics"
    /\ Len(InputArticles) = 3
    /\ \E t \in Topics :
          /\ t.articles_count = 2
          /\ t.frequency > 4
          /\ \E i \in 1..Len(InputArticles) :
                /\ TitleHits(InputArticles[i], t.keyword) = 1
                /\ BodyHits(InputArticles[i], t.keyword) >= 1

(***************************************************************************)
(* C30                                                                     *)
(***************************************************************************)
\* C30: a fault raised inside get_trending_topics, while the recent
\* articles are read or while keywords are aggregated and scored, is
\* caught: the call returns through one of its return statements, with an
\* empty list after a fault, and the call leaves the stored articles as
\* they were.
C30_FaultsCaught ==
    /\ [](trendPc = "done" =>
             /\ trendOutcome \in {"topics", "insufficient", "fault"}
             /\ trendOutcome = "fault" => trendResult = <<>>)
    /\ [][(trendPc = "idle" /\ trendPc' = "done") => articles' = articles]_vars

\* a fault during the aggregation over a store with enough recent articles
C30_Witness ==
    /\ trendPc = "done" /\ trendOutcome = "fault"
    /\ extractCalls = 1
    /\ RecentCount >= trendArgs.min_articles
    /\ trendResult = <<>>

\* C17: the value returned for an insufficient corpus differs from the
\* value returned after an internal fault.
C17_InsufficientMarked ==
    (trendPc = "done" /\ trendOutcome = "insufficient") =>
        trendResult # FaultResult

(***************************************************************************)
(* Claims about the recency score                                          *)
(***************************************************************************)
\* hours between the timestamp and the clock read by the computation
HoursSince(ts) == LocalNow - ts.t

\* max(0, 1 - hours_since/24) in 24ths, 0 for an unparseable timestamp
Contribution24(ts) ==
    IF ~ts.ok THEN 0
    ELSE IF HoursSince(ts) >= 24 THEN 0
    ELSE 24 - HoursSince(ts)

Links == {linkResult[i] : i \in 1..Len(linkResult)}

\* the URL contains /name/ for the given name, whatever the case
HasSegment(url, name) ==
    \E i \in 1..Len(url.path) :
        /\ LowerPart(url.path[i]) = name
        /\ (i < Len(url.path) \/ url.slash)

\* the validity rule as the specification states it
RejectedByRule(url) ==
    \/ url.scheme = "" \/ url.netloc = ""
    \/ /\ LowerPart(base_url.netloc) \in AllowedDomains
       /\ LowerPart(url.netloc) # LowerPart(base_url.netloc)
    \/ \E name \in {"video", "gallery", "live", "sport", "podcast", "tag",
                     "author", "category", "search"} : HasSegment(url, name)
    \/ \E i \in 1..Len(url.path) :
          \/ StartsWith(LowerPart(url.path[i]), "subscribe")
          \/ StartsWith(LowerPart(url.path[i]), "newsletter")
    \/ url.frag
    \/ url.scheme \in {"javascript", "mailto", "tel"}

\* C9: extract_article_links returns no URL that the validity rule rejects.
C9_OnlyValidLinks ==
    linkPc = "done" => \A u \in Links : ~RejectedByRule(u)

\* a page of a single-domain source with a valid link, a /video/ link and
\* a link to another host: only the valid one was returned
C9_Witness ==
    /\ linkPc = "done"
    /\ LowerPart(base_url.netloc) \in AllowedDomains
    /\ max_articles >= 3
    /\ Len(page) = 3
    /\ \E i, j, k \in 1..3 :
          /\ page[i] # NoHref /\ ~RejectedByRule(UrlJoin(base_url, page[i]))
          /\ HasSegment(page[j], "video")
          /\ page[k].netloc = "other.example"
    /\ Len(linkResult) = 1


(***************************************************************************)
(* C24                                                                     *)
(***************************************************************************)
\* the distinct valid article links of the index page: the resolved hrefs
\* of all its matching elements that the validity rule lets through
ValidLinksOnPage ==
    {u \in {UrlJoin(base_url, page[i]) :
                i \in {k \in 1..Len(page) : page[k] # NoHref}} :
        ~RejectedByRule(u)}

\* C24: the max_articles cap is applied after resolving, deduplicating and
\* filtering the links of all matching elements: a page with V distinct
\* valid links yields min(V, max_articles) links, all of them valid links
\* of the page.
C24_CapAfterFiltering ==
    linkPc = "done" =>
        /\ Links \subseteq ValidLinksOnPage
        /\ Len(linkResult) = Min(Cardinality(ValidLinksOnPage), max_articles)


(***************************************************************************)
(* C25                                                                     *)
(***************************************************************************)
\* no member of the sequence occurs twice
NoRepeat(seq) == \A i, j \in 1..Len(seq) : i # j => seq[i] # seq[j]

BodyLength ==
    SumSeq([i \in 1..Len(qArg.content) |->
               qArg.content[i][1].n + qArg.content[i][2].n])

\* the words of the title: the non-blank characters at the start of the
\* title or right after a blank
TitleWordCount ==
    Cardinality({i \in 1..Len(qArg.title) :
        /\ qArg.title[i] # Blank
        /\ (i = 1 \/ qArg.title[i - 1] = Blank)})

\* C10: when is_quality_content returns true, the body has at least
\* min_length characters and the title has between 3 and 20 words.
C10_AcceptedIsLongAndTitled ==
    (qPc = "done" /\ qResult) =>
        /\ BodyLength >= qArg.min_length
        /\ 3 <= TitleWordCount /\ TitleWordCount <= 20

\* an accepted article with a title of 20 words and min_length = 100
C10_Witness ==
    /\ qPc = "done" /\ qResult
    /\ TitleWordCount = 20
    /\ qArg.min_length = 100

\* the spam phrases that occur in the body, whatever the case
SpamPhrasesInBody ==
    {phrase \in {"click here", "buy now", "limited time", "act now",
                 "free trial", "sign up now", "subscribe", "download now"} :
        \E i \in 1..Len(qArg.content) :
            \/ Lower(qArg.content[i][1].w) = phrase
            \/ phrase = "subscribe" /\ qArg.content[i][1].w = "subscribers"}

\* the number of '.', '!' and '?' characters of the body
PunctuationMarks ==
    SumSeq([i \in 1..Len(qArg.content) |-> qArg.content[i][2].n])

EmptyTitleOrBody == Len(qArg.title) = 0 \/ BodyLength = 0
BodyTooShort == BodyLength < qArg.min_length
TitleOutOfRange == TitleWordCount < 3 \/ TitleWordCount > 20
TooMuchSpam == Cardinality(SpamPhrasesInBody) > 2
TooFewMarks == PunctuationMarks < 3

\* C11: is_quality_content rejects as soon as one of its checks fails,
\* whatever the other checks say, and is_quality_content("Hi", "short", 100)
\* is false.
C11_AnyFailedCheckRejects ==
    qPc = "done" =>
        /\ (EmptyTitleOrBody \/ BodyTooShort \/ TitleOutOfRange
               \/ TooMuchSpam \/ TooFewMarks) => ~qResult
        /\ (/\ qArg.title = <<Token("Hi")>>
            /\ qArg.content = <<<<Token("short"), Filler(0)>>>>
            /\ qArg.min_length = 100) => ~qResult

\* rejected for spam alone: three spam phrases, one of them inside a longer
\* word, every other check passing
C11_Witness ==
    /\ qPc = "done" /\ ~qResult
    /\ TooMuchSpam
    /\ \E i \in 1..Len(qArg.content) : qArg.content[i][1].w = "subscribers"
    /\ ~EmptyTitleOrBody /\ ~BodyTooShort /\ ~TitleOutOfRange /\ ~TooFewMarks


(***************************************************************************)
(* C23                                                                     *)
(***************************************************************************)
\* C23: is_quality_content accepts exactly when no rejection condition
\* holds: a non-empty title of 3 to 20 words with a non-empty body of at
\* least min_length characters, at most 2 distinct spam phrases and at
\* least 3 of the marks '.', '!' and '?' in the body is accepted, wherever
\* in the body those marks stand.
C23_AcceptsExactly ==
    qPc = "done" =>
        (qResult <=>
            ~(EmptyTitleOrBody \/ BodyTooShort \/ TitleOutOfRange
                 \/ TooMuchSpam \/ TooFewMarks))

(***************************************************************************)
(* Claims about the scrape run                                             *)
(***************************************************************************)
Sources == 1..Len(SourceNames)
LogIndices == 1..Len(log)

\* scrape_all_sources has returned
ScrapeOver == pipePc \in {"process", "tag", "store", "done"}

Logged(ev, s, i) ==
    \E p \in LogIndices :
        log[p].ev = ev /\ log[p].src = s /\ log[p].link = i

\* the number of events of the kind for the link
CountLogged(ev, s, i) ==
    Cardinality({p \in LogIndices :
        log[p].ev = ev /\ log[p].src = s /\ log[p].link = i})

\* an exception escaped fetch_articles of the source
SourceRaised(s) == \E i \in 0..MaxLinks : Logged("raised", s, i)

\* the links of which the source is recorded with an article
LinksRecorded(s) == {results[s][k].link : k \in 1..Len(results[s])}

\* C12: a page that stays unavailable stops nothing: in a source, a link
\* whose fetch or extraction fails is skipped and every other discovered
\* link is still requested; a source whose scrape fails or raises is
\* recorded with an empty list and every other source is still scraped.
C12_FailuresStopNothing ==
    ScrapeOver =>
        /\ Len(results) = Len(SourceNames)
        /\ \A s \in Sources :
              /\ Logged("request", s, 0)
              /\ (SourceRaised(s) \/ Logged("no_main_page", s, 0))
                    => results[s] = <<>>
              /\ ~SourceRaised(s) =>
                    /\ \A i \in 1..discovered[s] : Logged("request", s, i)
                    /\ \A i \in 1..discovered[s] :
                          Logged("failed", s, i) <=> i \notin LinksRecorded(s)

\* the main page of the first source stays unavailable; in the second
\* source the first link is requested three times in vain and the second
\* link gives an article
C12_Witness ==
    /\ pipePc = "done"
    /\ Logged("no_main_page", 1, 0)
    /\ CountLogged("request", 1, 0) = 3
    /\ discovered[2] = 2
    /\ CountLogged("request", 2, 1) = 3 /\ Logged("failed", 2, 1)
    /\ LinksRecorded(2) = {2}

\* the rate-limit delays made for the source
RateLimitDelays(s) ==
    {p \in LogIndices : log[p].ev = "rate_limit" /\ log[p].src = s}

\* the position of the first request for the link, 0 when there is none
FirstRequest(s, i) ==
    IF Logged("request", s, i)
      THEN CHOOSE p \in LogIndices :
             /\ log[p] = Event("request", s, i, 0)
             /\ \A q \in 1..(p - 1) : log[q] # Event("request", s, i, 0)
      ELSE 0

\* C13: fetch_articles sleeps rate_limit seconds right before the first
\* request of every article but the first one, whatever happened to the
\* article before; for n discovered links there are max(0, n - 1) delays.
C13_RateLimitBetweenArticles ==
    \A s \in 1..Len(discovered) :
        /\ \A p \in RateLimitDelays(s) :
              /\ log[p].secs = RateLimits[s]
              /\ log[p].link >= 2
              /\ log[p - 1].src = s /\ log[p - 1].link = log[p].link - 1
              /\ p < Len(log) => p + 1 = FirstRequest(s, log[p].link)
        /\ \A i \in 1..discovered[s] :
              FirstRequest(s, i) > 0 =>
                  IF i = 1
                    THEN log[FirstRequest(s, i) - 1].ev # "rate_limit"
                    ELSE log[FirstRequest(s, i) - 1]
                           = Event("rate_limit", s, i, RateLimits[s])
        /\ (s <= Len(results) /\ ~SourceRaised(s)) =>
              Cardinality(RateLimitDelays(s))
                  = IF discovered[s] = 0 THEN 0 ELSE discovered[s] - 1

\* the second source found two links: the first stayed unavailable after
\* two backoff sleeps, and the one delay of 1 second came before the second
C13_Witness ==
    /\ pipePc = "done"
    /\ discovered[2] = 2
    /\ CountLogged("backoff", 2, 1) = 2
    /\ Logged("failed", 2, 1)
    /\ Cardinality(RateLimitDelays(2)) = 1
    /\ Logged("extracted", 2, 2)

\* the number of characters of a body
CharsOf(content) ==
    SumSeq([i \in 1..Len(content) |-> content[i][1].n + content[i][2].n])

\* the article can be persisted
Eligible(a) ==
    /\ Len(a.title) > 0
    /\ CharsOf(a.content) > 0
    /\ CharsOf(a.content) >= min_content_length

\* C14: every article the scrape run hands to add_article has a non-empty
\* title, a non-empty body and a body of at least min_content_length
\* characters.
C14_OnlyEligibleStored ==
    /\ addOutcome = "returned" => Eligible(addArg)
    /\ \A k \in 1..Len(articles) : Eligible(articles[k])

\* with min_content_length = 200 an article was stored, and another link
\* was fetched at the first request but gave no article
C14_Witness ==
    /\ pipePc = "done"
    /\ min_content_length = 200
    /\ Len(articles) >= 1
    /\ \E s \in Sources : \E i \in 1..discovered[s] :
          Logged("failed", s, i) /\ CountLogged("request", s, i) = 1

\* the positions of the log at which the event of the link is
Positions(ev, s, i) ==
    {p \in LogIndices : log[p] = Event(ev, s, i, 0)}

\* every event `first` of the link comes before every event `second` of it
Before(first, second, s, i) ==
    /\ Positions(first, s, i) # {}
    /\ \A p \in Positions(first, s, i) : \A q \in Positions(second, s, i) :
          p < q

\* C20: an article reaches add_article only after it was fetched,
\* extracted, accepted by is_quality_content and given its keywords, in
\* that order, and an article that is_quality_content rejects never
\* reaches add_article.
C20_PipelineOrder ==
    /\ \A s \in 1..Len(discovered) : \A i \in 1..discovered[s] :
          Logged("add", s, i) =>
              /\ Before("request", "extracted", s, i)
              /\ Before("extracted", "accepted", s, i)
              /\ Before("accepted", "keywords", s, i)
              /\ Before("keywords", "add", s, i)
              /\ ~Logged("rejected", s, i)
    /\ addOutcome = "returned" =>
          /\ Logged("add", addArg.src, addArg.link)
          /\ IsQualityContent(addArg.title, addArg.content, 100)
    /\ \A k \in 1..Len(articles) :
          IsQualityContent(articles[k].title, articles[k].content, 100)

\* one article of the second source was rejected for its one-word title and
\* the other one was stored
C20_Witness ==
    /\ pipePc = "done"
    /\ Logged("rejected", 2, 1) /\ ~Logged("add", 2, 1)
    /\ Logged("add", 2, 2)
    /\ Len(articles) = 1


InitRuns ==
    /\ runPc = <<"idle", "idle">>
    /\ runQueue = <<<<>>, <<>>>>
    /\ runIdx = <<0, 0>>
    /\ processedCount = <<0, 0>>
    /\ runLog = <<<<>>, <<>>>>
    /\ sourcesTable \in {[src \in rows |-> NewSourceRow] : rows \in SourceRowSets}
    /\ FetchIdle /\ StoreIdle /\ TrendIdle /\ DedupIdle /\ LinkIdle
        /\ QualityIdle /\ PipeIdle /\ KeywordIdle /\ ConcIdle

NextRuns ==
    \/ \E queue \in SchedulerQueues : RunStart(Scheduler, queue)
    \/ \E queue \in ApiQueues : RunStart(Api, queue)
    \/ \E r \in {Scheduler, Api} : RunQuality(r)
    \/ \E r \in {Scheduler, Api} : \E raises \in BOOLEAN : RunTag(r, raises)
    \/ \E r \in {Scheduler, Api} : RunStore(r)
    \/ \E r \in {Scheduler, Api} : RunStats(r)
    \/ \E r \in {Scheduler, Api} : RunFinish(r)

SpecRuns == InitRuns /\ [][NextRuns]_vars


(***************************************************************************)
(* C22                                                                     *)
(***************************************************************************)
\* run r logged the event for its article k
Did(r, ev, k) ==
    \E p \in 1..Len(runLog[r]) : runLog[r][p].ev = ev /\ runLog[r][p].idx = k

\* the articles of run r with the URL that the run passed to add_article
Inserts(r, url) ==
    {k \in 1..Len(runQueue[r]) :
        /\ runQueue[r][k].url = url
        /\ (Did(r, "stored", k) \/ Did(r, "duplicate", k))}

\* those of them it counted as processed
CountedInserts(r, url) == {k \in Inserts(r, url) : Did(r, "stored", k)}

RowsWith(url) == {i \in 1..Len(articles) : articles[i].url = url}

RunUrls == {"u1", "u2", "u3"}

\* C22: when the runs process the same URL concurrently, in every
\* interleaving the store holds exactly one article for a URL that was
\* inserted, exactly one insert of it was counted as processed (and each
\* run's total is the number of inserts it counted), and a duplicate insert
\* raises nothing: a run ends early only when computing the sentiment, the
\* summary or the keywords raised in trigger_scraping, and a run that is
\* over has handled every article of its list.
C22_ConcurrentRunsOneArticle ==
    /\ \A url \in RunUrls :
          /\ Cardinality(RowsWith(url)) <= 1
          /\ Cardinality(RowsWith(url))
                = Cardinality(CountedInserts(Scheduler, url))
                     + Cardinality(CountedInserts(Api, url))
          /\ (Inserts(Scheduler, url) \cup Inserts(Api, url) # {})
                => Cardinality(RowsWith(url)) = 1
    /\ \A r \in {Scheduler, Api} :
          /\ processedCount[r] =
                Cardinality({k \in 1..Len(runQueue[r]) : Did(r, "stored", k)})
          /\ runPc[r] = "raised" =>
                /\ r = Api
                /\ runLog[r][Len(runLog[r])].ev = "error"
          /\ runPc[r] = "done" =>
                \A k \in 1..Len(runQueue[r]) :
                    Did(r, "accepted", k) \/ Did(r, "rejected", k)

\* both runs inserted "u1"; the scheduler's insert was stored, the insert
\* of trigger_scraping was the duplicate, and that run went on to store
\* its next article
C22_Witness ==
    /\ runPc = <<"done", "done">>
    /\ Did(Scheduler, "stored", 1) /\ runQueue[Scheduler][1].url = "u1"
    /\ Did(Api, "duplicate", 1) /\ runQueue[Api][1].url = "u1"
    /\ Did(Api, "stored", 2)
    /\ processedCount[Api] = 1
    /\ Cardinality(RowsWith("u1")) = 1

(***************************************************************************)
(* C29                                                                     *)
(***************************************************************************)
\* the calls of update_source_stats run r made for its article k
StatCalls(r, k) ==
    {p \in 1..Len(runLog[r]) :
        runLog[r][p].ev = "stat" /\ runLog[r][p].idx = k}

\* run r made a call of update_source_stats in this step
StatStep(r) ==
    /\ Len(runLog'[r]) = Len(runLog[r]) + 1
    /\ runLog'[r][Len(runLog'[r])].ev = "stat"

\* C29: in the scheduler's loop an accepted article leads to exactly one
\* call of update_source_stats: with success when add_article stored the
\* article, without when the insert was a duplicate or the processing
\* raised; a rejected article leads to none.  For a source with a row, a
\* call with success adds 1 to success_count and sets last_scraped, a call
\* without adds 1 to error_count and leaves success_count and last_scraped
\* as they were; no row changes in any other way.
C29_OneCounterPerArticle ==
    /\ [](\A k \in 1..Len(runQueue[Scheduler]) :
             k < runIdx[Scheduler] =>
                IF Did(Scheduler, "accepted", k)
                  THEN /\ Cardinality(StatCalls(Scheduler, k)) = 1
                       /\ \A p \in StatCalls(Scheduler, k) :
                             /\ runLog[Scheduler][p].success
                                   <=> Did(Scheduler, "stored", k)
                             /\ ~runLog[Scheduler][p].success
                                   <=> (Did(Scheduler, "duplicate", k)
                                           \/ Did(Scheduler, "error", k))
                  ELSE /\ Did(Scheduler, "rejected", k)
                       /\ StatCalls(Scheduler, k) = {})
    /\ [][(~StatStep(Scheduler) /\ ~StatStep(Api))
             => sourcesTable' = sourcesTable]_vars
    /\ [][StatStep(Scheduler) =>
             LET call == runLog'[Scheduler][Len(runLog'[Scheduler])]
                 src == runQueue[Scheduler][call.idx].src
             IN  /\ \A other \in DOMAIN sourcesTable :
                       other # src => sourcesTable'[other] = sourcesTable[other]
                 /\ src \in DOMAIN sourcesTable =>
                       IF call.success
                         THEN /\ sourcesTable'[src].success_count
                                    = sourcesTable[src].success_count + 1
                              /\ sourcesTable'[src].error_count
                                    = sourcesTable[src].error_count
                              /\ sourcesTable'[src].last_scraped = clock
                         ELSE /\ sourcesTable'[src].error_count
                                    = sourcesTable[src].error_count + 1
                              /\ sourcesTable'[src].success_count
                                    = sourcesTable[src].success_count
                              /\ sourcesTable'[src].last_scraped
                                    = sourcesTable[src].last_scraped]_vars

\* the scheduler alone: its first article was stored, its second was a
\* duplicate of the first from another source, both sources having a row
C29_Witness ==
    /\ runPc[Scheduler] = "done" /\ runPc[Api] = "idle"
    /\ Did(Scheduler, "stored", 1) /\ Did(Scheduler, "duplicate", 2)
    /\ runQueue[Scheduler][1].src = 1 /\ runQueue[Scheduler][2].src = 2
    /\ DOMAIN sourcesTable = {1, 2}
    /\ sourcesTable[1] =
          [success_count |-> 1, error_count |-> 0, last_scraped |-> clock]
    /\ sourcesTable[2] =
          [success_count |-> 0, error_count |-> 1, last_scraped |-> NoStamp]

InitConc ==
    /\ vocabulary = <<>>
    /\ ckPc = "idle"
    /\ ckArg = [text |-> <<>>, max_keywords |-> 0]
    /\ ckScores = <<>>
    /\ ckResult = <<>>
    /\ cdPc = "idle"
    /\ cdBatch = <<>>
    /\ cdRows = <<>>
    /\ cdResult = <<>>
    /\ FetchIdle /\ StoreIdle /\ TrendIdle /\ DedupIdle /\ LinkIdle
        /\ QualityIdle /\ PipeIdle /\ KeywordIdle /\ RunsIdle

NextConc ==
    \/ \E text \in ConcTexts : \E max_keywords \in MaxKeywordsSet :
          CkStart(text, max_keywords)
    \/ CkFit
    \/ CkNames
    \/ \E texts \in ConcBatches : CdStart(texts)
    \/ CdFit
    \/ CdLoops

SpecConc == InitConc /\ [][NextConc]_vars

(***************************************************************************)
(* C21                                                                     *)
(***************************************************************************)
\* what extract_keywords returns for the text when it runs alone
KeywordsAlone(text, max_keywords) ==
    LET words == CleanWords(text)
    IN  IF Len(words) < MinWords THEN <<>>
        ELSE IF PrimaryFails(words)
          THEN FallbackKeywords(words, max_keywords)
        ELSE PrimaryKeywords(words, max_keywords)

\* what detect_duplicates returns for the texts when it runs alone
ClustersAlone(texts) ==
    IF Len(texts) < 2 THEN <<>>
    ELSE IF \A i \in 1..Len(texts) : PrimaryFails(CleanWords(texts[i]))
      THEN <<>>
    ELSE GroupLoop([i \in 1..Len(texts) |-> TextRow(texts[i])], 0, {}, <<>>)

\* C21: an extract_keywords call and a detect_duplicates call that run
\* concurrently on one ContentExtractor, in any interleaving, each return
\* what they return when run alone on their input.
C21_ConcurrentCallsIndependent ==
    /\ ckPc = "done" => ckResult = KeywordsAlone(ckArg.text, ckArg.max_keywords)
    /\ cdPc = "done" => cdResult = ClustersAlone(cdBatch)

====
